---- MODULE Spec2Model ----
(***************************************************************************)
(* Model of journaltrove-system's unified requirements validator           *)
(* (scripts/validate-requirements.js, kept under src/unnamed/part_007).    *)
(*                                                                         *)
(* A run parses the command line, loads the requirements files into the    *)
(* registry (allRequirements) and the per-component maps                   *)
(* (componentRequirements), loads the test-mapping files into              *)
(* testMappings, then in early mode runs four validations and exits.       *)
(*                                                                         *)
(* JavaScript strings are TLA+ strings in the state; wherever the code     *)
(* looks inside a string (includes, startsWith, path.basename, the ID      *)
(* regular expression) the model works on the string's characters, given   *)
(* by the table Chars.                                                     *)
(***************************************************************************)
EXTENDS Integers, Sequences, FiniteSets, TLC

(***************************************************************************)
(* Bounds of the model.                                                    *)
(***************************************************************************)
\* Total number of @graph elements and nested test cases the documents of
\* one run hold, over all requirements and test-mapping files.
MaxRecords == 2
\* Runs of the pipeline's workflows that triggers other than the
\* orchestrator create while the orchestrator runs.
MaxOtherRuns == 1
\* Attempts of the orchestrator's poll loop (the workflow sets 30; the loop
\* does the same at every attempt, so the model polled fewer times).
MAX_ATTEMPTS == 2

(***************************************************************************)
(* Strings.                                                                *)
(***************************************************************************)
\* JavaScript's undefined (an absent property).  No document string of the
\* model is spelled like this.
undefined == "<undefined>"
\* JavaScript's null, and the empty answer of a command.
null == "<null>"

\* The characters of every string the model handles.
Chars ==
   ("" :> <<>>) @@
   ("." :> <<".">>) @@
   ("/" :> <<"/">>) @@
   ("System.1" :> <<"S", "y", "s", "t", "e", "m", ".", "1">>) @@
   ("System.9" :> <<"S", "y", "s", "t", "e", "m", ".", "9">>) @@
   ("System.1.iOS.1" :> <<"S", "y", "s", "t", "e", "m", ".", "1", ".", "i", "O", "S", ".", "1">>) @@
   ("Req.iOS.1" :> <<"R", "e", "q", ".", "i", "O", "S", ".", "1">>) @@
   ("System.1.System.1" :> <<"S", "y", "s", "t", "e", "m", ".", "1", ".", "S", "y", "s", "t", "e", "m", ".", "1">>) @@
   ("Req.1" :> <<"R", "e", "q", ".", "1">>) @@
   ("tc" :> <<"t", "c">>) @@
   ("tc\nb" :> <<"t", "c", "\n", "b">>) @@
   ("System.1\n" :> <<"S", "y", "s", "t", "e", "m", ".", "1", "\n">>) @@
   ("constructor" :> <<"c", "o", "n", "s", "t", "r", "u", "c", "t", "o", "r">>) @@
   ("System" :> <<"S", "y", "s", "t", "e", "m">>) @@
   ("System.1.iOS" :> <<"S", "y", "s", "t", "e", "m", ".", "1", ".", "i", "O", "S">>) @@
   ("System.iOS.1" :> <<"S", "y", "s", "t", "e", "m", ".", "i", "O", "S", ".", "1">>) @@
   ("System.1.iOS.1.Android.1" :> <<"S", "y", "s", "t", "e", "m", ".", "1", ".", "i", "O", "S", ".", "1", ".", "A", "n", "d", "r", "o", "i", "d", ".", "1">>) @@
   ("System.10.2" :> <<"S", "y", "s", "t", "e", "m", ".", "1", "0", ".", "2">>) @@
   ("System.1.iOS.1.2" :> <<"S", "y", "s", "t", "e", "m", ".", "1", ".", "i", "O", "S", ".", "1", ".", "2">>) @@
   ("System.1." :> <<"S", "y", "s", "t", "e", "m", ".", "1", ".">>) @@
   ("XSystem.1" :> <<"X", "S", "y", "s", "t", "e", "m", ".", "1">>) @@
   ("System.1.iO5.1" :> <<"S", "y", "s", "t", "e", "m", ".", "1", ".", "i", "O", "5", ".", "1">>) @@
   ("System..1" :> <<"S", "y", "s", "t", "e", "m", ".", ".", "1">>) @@
   ("iOS" :> <<"i", "O", "S">>) @@
   ("Android" :> <<"A", "n", "d", "r", "o", "i", "d">>) @@
   ("requirements" :> <<"r", "e", "q", "u", "i", "r", "e", "m", "e", "n", "t", "s">>) @@
   ("test-mappings" :> <<"t", "e", "s", "t", "-", "m", "a", "p", "p", "i", "n", "g", "s">>) @@
   ("System." :> <<"S", "y", "s", "t", "e", "m", ".">>) @@
   ("journaltrove-system/requirements" :> <<"j", "o", "u", "r", "n", "a", "l", "t", "r", "o", "v", "e", "-", "s", "y", "s", "t", "e", "m", "/", "r", "e", "q", "u", "i", "r", "e", "m", "e", "n", "t", "s">>) @@
   ("system/requirements" :> <<"s", "y", "s", "t", "e", "m", "/", "r", "e", "q", "u", "i", "r", "e", "m", "e", "n", "t", "s">>) @@
   ("requirements/requirements.jsonld" :> <<"r", "e", "q", "u", "i", "r", "e", "m", "e", "n", "t", "s", "/", "r", "e", "q", "u", "i", "r", "e", "m", "e", "n", "t", "s", ".", "j", "s", "o", "n", "l", "d">>) @@
   ("journaltrove-system/requirements/requirements.jsonld" :> <<"j", "o", "u", "r", "n", "a", "l", "t", "r", "o", "v", "e", "-", "s", "y", "s", "t", "e", "m", "/", "r", "e", "q", "u", "i", "r", "e", "m", "e", "n", "t", "s", "/", "r", "e", "q", "u", "i", "r", "e", "m", "e", "n", "t", "s", ".", "j", "s", "o", "n", "l", "d">>) @@
   ("components/iOS/requirements/requirements.jsonld" :> <<"c", "o", "m", "p", "o", "n", "e", "n", "t", "s", "/", "i", "O", "S", "/", "r", "e", "q", "u", "i", "r", "e", "m", "e", "n", "t", "s", "/", "r", "e", "q", "u", "i", "r", "e", "m", "e", "n", "t", "s", ".", "j", "s", "o", "n", "l", "d">>) @@
   ("iOS/reqs.jsonld" :> <<"i", "O", "S", "/", "r", "e", "q", "s", ".", "j", "s", "o", "n", "l", "d">>) @@
   ("tmp/test-mappings/iOS/test-mappings.jsonld" :> <<"t", "m", "p", "/", "t", "e", "s", "t", "-", "m", "a", "p", "p", "i", "n", "g", "s", "/", "i", "O", "S", "/", "t", "e", "s", "t", "-", "m", "a", "p", "p", "i", "n", "g", "s", ".", "j", "s", "o", "n", "l", "d">>) @@
   ("Android/test-mappings/tm.jsonld" :> <<"A", "n", "d", "r", "o", "i", "d", "/", "t", "e", "s", "t", "-", "m", "a", "p", "p", "i", "n", "g", "s", "/", "t", "m", ".", "j", "s", "o", "n", "l", "d">>) @@
   (".jsonld" :> <<".", "j", "s", "o", "n", "l", "d">>) @@
   (".json" :> <<".", "j", "s", "o", "n">>) @@
   ("test-results" :> <<"t", "e", "s", "t", "-", "r", "e", "s", "u", "l", "t", "s">>) @@
   ("ios.jsonld" :> <<"i", "o", "s", ".", "j", "s", "o", "n", "l", "d">>) @@
   ("notes.txt" :> <<"n", "o", "t", "e", "s", ".", "t", "x", "t">>) @@
   ("android" :> <<"a", "n", "d", "r", "o", "i", "d">>) @@
   ("android.json" :> <<"a", "n", "d", "r", "o", "i", "d", ".", "j", "s", "o", "n">>) @@
   ("test-results/ios.jsonld" :> <<"t", "e", "s", "t", "-", "r", "e", "s", "u", "l", "t", "s", "/", "i", "o", "s", ".", "j", "s", "o", "n", "l", "d">>) @@
   ("test-results/notes.txt" :> <<"t", "e", "s", "t", "-", "r", "e", "s", "u", "l", "t", "s", "/", "n", "o", "t", "e", "s", ".", "t", "x", "t">>) @@
   ("test-results/android" :> <<"t", "e", "s", "t", "-", "r", "e", "s", "u", "l", "t", "s", "/", "a", "n", "d", "r", "o", "i", "d">>) @@
   ("test-results/android/android.json" :> <<"t", "e", "s", "t", "-", "r", "e", "s", "u", "l", "t", "s", "/", "a", "n", "d", "r", "o", "i", "d", "/", "a", "n", "d", "r", "o", "i", "d", ".", "j", "s", "o", "n">>) @@
   ("components/Android/requirements/requirements.jsonld" :> <<"c", "o", "m", "p", "o", "n", "e", "n", "t", "s", "/", "A", "n", "d", "r", "o", "i", "d", "/", "r", "e", "q", "u", "i", "r", "e", "m", "e", "n", "t", "s", "/", "r", "e", "q", "u", "i", "r", "e", "m", "e", "n", "t", "s", ".", "j", "s", "o", "n", "l", "d">>)

\* The string spelled by a sequence of characters.
StrOf(cs) == CHOOSE s \in DOMAIN Chars : Chars[s] = cs

\* !!x for a string-or-undefined x.
Truthy(x) == x # undefined /\ x # null /\ x # ""

\* hay.includes(needle), on characters.
includes(hay, needle) ==
    \E i \in 0..(Len(hay) - Len(needle)) :
        \A k \in 1..Len(needle) : hay[i + k] = needle[k]

\* s.startsWith(prefix), on characters.
startsWith(s, prefix) ==
    /\ Len(prefix) <= Len(s)
    /\ \A k \in 1..Len(prefix) : s[k] = prefix[k]

\* s.endsWith(suffix), on characters.
endsWith(s, suffix) ==
    /\ Len(suffix) <= Len(s)
    /\ \A k \in 1..Len(suffix) : s[Len(s) - Len(suffix) + k] = suffix[k]

\* path.join(directory, name), for a directory without trailing slash.
join(directory, name) == StrOf(Chars[directory] \o <<"/">> \o Chars[name])

\* Index of the last "/" of a path, 0 when it has none.
LastSlash(p) ==
    LET S == {i \in 1..Len(p) : p[i] = "/"}
    IN  IF S = {} THEN 0 ELSE CHOOSE i \in S : \A j \in S : j <= i

\* path.basename(p), for a path without trailing or repeated slashes.
basename(p) == SubSeq(p, LastSlash(p) + 1, Len(p))

\* path.dirname(p), for a path without trailing or repeated slashes.
dirname(p) ==
    LET i == LastSlash(p)
    IN  IF i = 0 THEN <<".">>
        ELSE IF i = 1 THEN <<"/">>
        ELSE SubSeq(p, 1, i - 1)

\* The ID regular expression of VALIDATION 4, written here with blanks
\* between its parts:
\*    ^ System \. \d+ ( \. \d+ )* ( \. [A-Za-z]+ \. \d+ ( \. \d+ )* )? $
\* It is run as a position automaton: each operator maps the set of
\* positions at which a match may stand to the set of positions after its
\* sub-expression.
Digit == {"0", "1", "2", "3", "4", "5", "6", "7", "8", "9"}
Letter == {"a", "b", "c", "d", "e", "f", "g", "h", "i", "j", "k", "l", "m",
           "n", "o", "p", "q", "r", "s", "t", "u", "v", "w", "x", "y", "z",
           "A", "B", "C", "D", "E", "F", "G", "H", "I", "J", "K", "L", "M",
           "N", "O", "P", "Q", "R", "S", "T", "U", "V", "W", "X", "Y", "Z"}

\* A literal: positions after `lit`, read from a position of P.
ReLit(cs, P, lit) ==
    {p + Len(lit) : p \in {q \in P : /\ q + Len(lit) <= Len(cs) + 1
                                      /\ \A k \in 1..Len(lit) : cs[q + k - 1] = lit[k]}}

\* class+ : positions after one or more characters of `class`.
RePlus(cs, P, class) ==
    {e \in 2..(Len(cs) + 1) :
        \E p \in P : p < e /\ \A k \in p..(e - 1) : cs[k] \in class}

\* \.\d+
ReDotDigits(cs, P) == RePlus(cs, ReLit(cs, P, <<".">>), Digit)

\* ( \. \d+ )* : zero or more repetitions.
RECURSIVE ReDotDigitsStar(_, _)
ReDotDigitsStar(cs, P) ==
    LET Q == P \cup ReDotDigits(cs, P)
    IN  IF Q = P THEN P ELSE ReDotDigitsStar(cs, Q)

\* ( \. [A-Za-z]+ \. \d+ ( \. \d+ )* )? : the optional component part.
ReComponentPart(cs, P) ==
    P \cup ReDotDigitsStar(cs,
               ReDotDigits(cs, RePlus(cs, ReLit(cs, P, <<".">>), Letter)))

\* The regular expression without its closing $: a match may end anywhere.
systemFormatTestUnanchored(cs) ==
    ReComponentPart(cs,
        ReDotDigitsStar(cs,
            ReDotDigits(cs, ReLit(cs, {1}, Chars["System"])))) # {}

\* systemFormat.test(id): ^ anchors at position 1, $ at the end of input.
systemFormatTest(cs) ==
    (Len(cs) + 1) \in
        ReComponentPart(cs,
            ReDotDigitsStar(cs,
                ReDotDigits(cs, ReLit(cs, {1}, Chars["System"]))))

(***************************************************************************)
(* A JavaScript Map: its entries <<key, value>> in insertion order.        *)
(***************************************************************************)
MapHas(m, k) == \E i \in 1..Len(m) : m[i][1] = k

MapIndex(m, k) == CHOOSE i \in 1..Len(m) : m[i][1] = k

MapGet(m, k) == m[MapIndex(m, k)][2]

MapKeys(m) == {m[i][1] : i \in 1..Len(m)}

\* A set that leaves a present key alone (first write wins).
MapSetKeepsFirst(m, k, v) ==
    IF MapHas(m, k) THEN m ELSE Append(m, <<k, v>>)

\* m.set(k, v): a present key keeps its place and takes the new value.
MapSet(m, k, v) ==
    IF MapHas(m, k)
    THEN [m EXCEPT ![MapIndex(m, k)] = <<k, v>>]
    ELSE Append(m, <<k, v>>)

(***************************************************************************)
(* The command line and the documents on disk.                             *)
(***************************************************************************)
SystemReqs == "journaltrove-system/requirements/requirements.jsonld"
PlainReqs  == "requirements/requirements.jsonld"
IosReqs    == "components/iOS/requirements/requirements.jsonld"
AndroidReqs == "components/Android/requirements/requirements.jsonld"
IosReqs2   == "iOS/reqs.jsonld"
IosMappings     == "tmp/test-mappings/iOS/test-mappings.jsonld"
AndroidMappings == "Android/test-mappings/tm.jsonld"
Pattern == "tmp/test-mappings/**/test-mappings.jsonld"
ResultsDir == "test-results"

\* The runs the model explores: a command line (process.argv.slice(2)),
\* what glob.sync returns for its mapping pattern, and the documents the
\* disk holds ("structure" documents vary parents, declared components and
\* the way a record is typed and identified; "format" documents vary the
\* spelling of the id).
Run(a, g, c) == [args |-> a, globResult |-> g, corpus |-> c]

Runs ==
    { Run(<<"--early", SystemReqs, IosReqs, "--test-mappings", Pattern>>,
          <<IosMappings>>, "structure"),
      Run(<<"--early", SystemReqs, IosReqs, "--test-mappings", Pattern>>,
          <<IosMappings, AndroidMappings>>, "structure"),
      Run(<<"--early", IosReqs, IosReqs2, "--test-mappings", Pattern>>,
          <<>>, "structure"),
      Run(<<"--early", PlainReqs, IosReqs>>, <<>>, "format"),
      Run(<<"--early", "--test-mappings", Pattern>>, <<IosMappings>>, "structure"),
      Run(<<"--early">>, <<>>, "structure"),
      Run(<<IosReqs, SystemReqs>>, <<>>, "structure"),
      Run(<<"--test-results", ResultsDir, SystemReqs>>, <<>>, "results"),
      Run(<<"--test-results", ResultsDir>>, <<>>, "results"),
      Run(<<"--test-results", "", SystemReqs>>, <<>>, "results") }

\* How opening a file may end: it does not exist, readFileSync throws (a
\* directory, a file that cannot be read), it is not JSON, its JSON is
\* null, its JSON has no @graph array, or it is a document whose @graph is
\* read next.
FileStatus == {"missing", "unreadable", "badjson", "null", "nograph", "ok"}

\* An element of the @graph of a requirements file.
GraphItem(type, atType, id, atId, parent, component) ==
    [type |-> type, atType |-> atType, id |-> id, atId |-> atId,
     parent |-> parent, component |-> component]

\* The JSON value null as an element of a @graph.
NullItem == GraphItem(null, null, null, null, null, null)

\* The elements the requirements documents are drawn from.
StructureItems ==
    { GraphItem("Requirement", undefined, "System.1", undefined, undefined, "iOS"),
      GraphItem("Requirement", undefined, "System.1.iOS.1", undefined, "System.1", "iOS"),
      GraphItem("Requirement", undefined, "System.1.iOS.1", undefined, "System.9", "Android"),
      GraphItem("Requirement", undefined, "System.1", undefined, "Req.iOS.1", "iOS"),
      GraphItem("Requirement", undefined, "Req.iOS.1", undefined, "System.9", undefined),
      GraphItem("Requirement", undefined, "System.1.System.1", undefined, undefined, "iOS"),
      GraphItem(undefined, "Requirement", undefined, "System.1", undefined, "System"),
      GraphItem("Requirement", undefined, undefined, "", "System.9", "iOS"),
      GraphItem("Component", undefined, "System.1.iOS.1", undefined, "System.9", "iOS") }

FormatIds ==
    { "Req.1", "System", "System.1.iOS", "System.iOS.1",
      "System.1.iOS.1.Android.1", "System.10.2", "System.1.iOS.1.2",
      "System.1.", "XSystem.1", "System.1.iO5.1" }

FormatItems ==
    { GraphItem("Requirement", undefined, id, undefined, undefined, "iOS") :
        id \in FormatIds }

\* The requirements the test cases of the result documents refer to.
ResultsItems ==
    { GraphItem("Requirement", undefined, "System.1", undefined, undefined, "iOS"),
      GraphItem(undefined, "Requirement", undefined, "System.1.iOS.1", "System.1", undefined) }

ReqItemPool(c) ==
    {NullItem} \cup
    (IF c = "structure" THEN StructureItems
     ELSE IF c = "format" THEN FormatItems
     ELSE ResultsItems)

\* A test case of a test suite.
TestCase(verifies) ==
    [atId |-> "tc", id |-> undefined, name |-> "t", verifies |-> verifies]

\* A testCases array may hold the JSON value null in the place of a test
\* case.
NullCase == [atId |-> null, id |-> null, name |-> null, verifies |-> null]

CasePool == { TestCase(v) : v \in {undefined, "System.1", "System.9"} }

\* Sequences over S of length at most n.
SeqUpTo(S, n) == UNION { [1..k -> S] : k \in 0..n }

\* A test suite; casesIsArray is Array.isArray(suite.testCases).
Suite(isArray, cases) == [casesIsArray |-> isArray, testCases |-> cases]

\* An element of the @graph of a test-mapping file; suitesIsArray is
\* Array.isArray(item.testSuites).  verifies is the field of a top-level
\* TestMapping element, as in the documented test-mappings.jsonld layout.
MappingItem(type, atType, isArray, suites, verifies) ==
    [type |-> type, atType |-> atType, suitesIsArray |-> isArray,
     testSuites |-> suites, verifies |-> verifies]

\* The JSON value null as an element of a @graph and as an element of
\* testSuites (told from a suite by the null test case it holds without
\* holding an array).
NullMappingItem == MappingItem(null, null, FALSE, <<>>, null)
NullSuite == Suite(FALSE, <<NullCase>>)

\* The number of test cases nested in an element.
RECURSIVE CasesIn(_)
CasesIn(suites) ==
    IF suites = <<>> THEN 0
    ELSE Len(Head(suites).testCases) + CasesIn(Tail(suites))

\* What an element counts against MaxRecords.
Weight(item) ==
    IF CasesIn(item.testSuites) = 0 THEN 1 ELSE CasesIn(item.testSuites)

\* The test-mapping elements holding at most n test cases.
MapItemPool(n) ==
    LET Nested ==
            { MappingItem("TestMappings", undefined, TRUE, <<Suite(TRUE, cs)>>, undefined) :
                cs \in SeqUpTo(CasePool, n) }
        Split ==
            { MappingItem(undefined, "TestMappings", TRUE,
                          <<Suite(TRUE, <<c>>), Suite(TRUE, <<TestCase("")>>)>>,
                          undefined) :
                c \in CasePool }
        Odd ==
            { MappingItem("TestMappings", undefined, FALSE, <<>>, undefined),
              MappingItem("TestMappings", undefined, TRUE, <<Suite(FALSE, <<>>)>>, undefined),
              MappingItem(undefined, "TestMapping", FALSE, <<>>, "System.9") }
        Nulls ==
            { NullMappingItem,
              MappingItem("TestMappings", undefined, TRUE, <<NullSuite>>, undefined),
              MappingItem("TestMappings", undefined, TRUE,
                          <<Suite(TRUE, <<NullCase>>)>>, undefined),
              MappingItem("TestMappings", undefined, TRUE,
                          <<Suite(TRUE, <<TestCase("System.1"), NullCase>>)>>,
                          undefined) }
    IN  { it \in Nested \cup Split \cup Odd \cup Nulls : Weight(it) <= n }

(***************************************************************************)
(* The test results directory (test-results mode).                         *)
(***************************************************************************)
\* An entry of fs.readdirSync(directory, {withFileTypes: true}).  For a
\* directory, readable tells whether readdirSync succeeds on it and entries
\* is what it returns.
FileEntry(name) ==
    [name |-> name, isDirectory |-> FALSE, readable |-> TRUE, entries |-> <<>>]

DirEntry(name, readable, entries) ==
    [name |-> name, isDirectory |-> TRUE, readable |-> readable, entries |-> entries]

\* The orders in which a listing (glob.sync, fs.readdirSync) may return the
\* entries `s`: neither call is given an order by the script.
Orders(s) ==
    { [i \in 1..Len(s) |-> s[p[i]]] :
        p \in { q \in [1..Len(s) -> 1..Len(s)] :
                  \A i, j \in 1..Len(s) : q[i] = q[j] => i = j } }

\* The ways fs.readdirSync may list the directory `entry` and the
\* directories below it: the same entries, each level in any order.
RECURSIVE Relistings(_)
Relistings(entry) ==
    IF entry.entries = <<>> THEN { entry }
    ELSE LET n == Len(entry.entries)
             Below == UNION { Relistings(entry.entries[i]) : i \in 1..n }
             Listed == { es \in [1..n -> Below] :
                           \A i \in 1..n : es[i] \in Relistings(entry.entries[i]) }
         IN  { [entry EXCEPT !.entries = order] :
                 order \in UNION { Orders(es) : es \in Listed } }

\* What the results directory may hold: it cannot be read, it is empty, it
\* holds one result file, a file that is no result file beside a directory
\* with a result file, a result file beside a directory that cannot be
\* read, or a result file beside a directory with another.
ResultDirectories ==
    { DirEntry(ResultsDir, FALSE, <<>>),
      DirEntry(ResultsDir, TRUE, <<>>),
      DirEntry(ResultsDir, TRUE, <<FileEntry("ios.jsonld")>>),
      DirEntry(ResultsDir, TRUE,
               <<FileEntry("notes.txt"),
                 DirEntry("android", TRUE, <<FileEntry("android.json")>>)>>),
      DirEntry(ResultsDir, TRUE,
               <<FileEntry("ios.jsonld"), DirEntry("android", FALSE, <<>>)>>),
      DirEntry(ResultsDir, TRUE,
               <<FileEntry("ios.jsonld"),
                 DirEntry("android", TRUE, <<FileEntry("android.json")>>)>>) }

\* The directory trees the results directory is drawn from: those
\* directories, listed in every order.
ResultTrees == UNION { Relistings(dir) : dir \in ResultDirectories }

\* The results directory before findTestResultFiles has read it.
NoTree == DirEntry(undefined, FALSE, <<>>)

\* How reading a result file may end: readFileSync throws, JSON.parse
\* throws, or the JSON is a document.
ResultStatus == {"unreadable", "badjson", "ok"}

\* An element of the @graph of a result document: its testSuites and its
\* own testCases, each with Array.isArray of it.
ResultItem(suitesIsArray, suites, casesIsArray, cases) ==
    [suitesIsArray |-> suitesIsArray, testSuites |-> suites,
     casesIsArray |-> casesIsArray, testCases |-> cases]

\* A result document; hasGraph is Array.isArray(testResults['@graph']).
ResultDoc(hasGraph, graph) == [hasGraph |-> hasGraph, graph |-> graph]


\* The result documents holding at most n test cases.
ResultDocPool(n) ==
    LET InSuites ==
            { ResultDoc(TRUE, <<ResultItem(TRUE, <<Suite(TRUE, cs)>>, FALSE, <<>>)>>) :
                cs \in SeqUpTo(CasePool \cup {NullCase}, n) }
        Direct ==
            { ResultDoc(TRUE, <<ResultItem(FALSE, <<>>, TRUE, <<c>>)>>) :
                c \in IF n >= 1 THEN CasePool ELSE {} }
        Both ==
            { ResultDoc(TRUE, <<ResultItem(TRUE, <<Suite(TRUE, <<TestCase("System.1")>>)>>,
                                           TRUE, <<c>>)>>) :
                c \in IF n >= 2 THEN CasePool ELSE {} }
    IN  {ResultDoc(FALSE, <<>>)} \cup InSuites \cup Direct \cup Both

\* The test cases of the suites that hold an array of them.
RECURSIVE SuiteCases(_)
SuiteCases(suites) ==
    IF suites = <<>> THEN <<>>
    ELSE (IF Head(suites).casesIsArray THEN Head(suites).testCases ELSE <<>>)
         \o SuiteCases(Tail(suites))

\* What extractTestCases pushes for one element of the @graph.
ItemCases(item) ==
    (IF item.suitesIsArray THEN SuiteCases(item.testSuites) ELSE <<>>)
    \o (IF item.casesIsArray THEN item.testCases ELSE <<>>)

RECURSIVE GraphCases(_)
GraphCases(graph) ==
    IF graph = <<>> THEN <<>>
    ELSE ItemCases(Head(graph)) \o GraphCases(Tail(graph))

\* extractTestCases(testResults)
extractTestCases(testResults) ==
    IF testResults.hasGraph THEN GraphCases(testResults.graph) ELSE <<>>

\* findTestResultFiles(directory): the files found and the console lines
\* printed; dir is what the disk holds at `directory`.
RECURSIVE findTestResultFiles(_, _)
RECURSIVE ScanEntries(_, _)
ScanEntries(directory, entries) ==
    IF entries = <<>> THEN [files |-> <<>>, lines |-> <<>>]
    ELSE LET file == Head(entries)
             fullPath == join(directory, file.name)
             here ==
                 IF file.isDirectory
                 THEN findTestResultFiles(fullPath, file)
                 ELSE IF \/ endsWith(Chars[file.name], Chars[".jsonld"])
                         \/ endsWith(Chars[file.name], Chars[".json"])
                 THEN [files |-> <<fullPath>>, lines |-> <<>>]
                 ELSE [files |-> <<>>, lines |-> <<>>]
             rest == ScanEntries(directory, Tail(entries))
         IN  [files |-> here.files \o rest.files,
              lines |-> here.lines \o rest.lines]

findTestResultFiles(directory, dir) ==
    IF ~dir.readable
    THEN [files |-> <<>>,
          lines |-> << <<"error", "read-directory", directory>> >>]
    ELSE ScanEntries(directory, dir.entries)

(***************************************************************************)
(* State.                                                                  *)
(***************************************************************************)
VARIABLES
    args,                  \* process.argv.slice(2)
    globResult,            \* what glob.sync returns for the mapping pattern
    corpus,                \* which documents the disk holds
    reqDocs,               \* the requirements files opened so far, as read
    mapDocs,               \* the test-mapping files opened so far, as read
    mode,                  \* 'early', 'test-results' or null
    requirementsFiles,     \* the requirements file paths of the command line
    testMappingFiles,      \* the test-mapping file paths
    testResultsDir,        \* the test results directory, or null
    resultsTree,           \* what the disk holds at testResultsDir, once read
    resDocs,               \* the result files read so far, as read
    testFiles,             \* what findTestResultFiles returned
    errors, warnings, correct,  \* counters of runTestResultsValidation
    runNo,                 \* 1 for a run of the script, 2 for a run repeated
    first,                 \* what the first run read and how it ended
    job,                   \* orchestrator: the state of each of its jobs
    at,                    \* orchestrator: the step the running job stands at
    repoIdx,               \* orchestrator: which component a step is at
    validatorExit,         \* exit code of the early validation step
    triggered,             \* workflows `gh workflow run` was accepted for
    runId,                 \* IOS_RUN_ID, ANDROID_RUN_ID, IPFS_RUN_ID, RUN_ID
    done,                  \* IOS_DONE, ANDROID_DONE, IPFS_DONE
    attempt,               \* ATTEMPT
    polled,                \* the component the last check called
                           \* check_workflow_status for, or null
    STATUS, CONCLUSION,    \* what the last `gh run view` calls printed
    github,                \* the runs GitHub holds of each workflow
    others,                \* runs created by other triggers so far
    systemFile,            \* aggregation: requirements/requirements.jsonld
    componentFiles,        \* aggregation: the component files `find` prints
    step,                  \* aggregation: where the script stands
    fileNo,                \* aggregation: the file the while loop reads
    ALL_REQUIREMENTS,      \* the array of the shell that runs the script
    subshell,              \* ALL_REQUIREMENTS in the subshell of the pipeline
    matrix,                \* the requirements array of the output file
    resultFiles,           \* aggregation: the result files `find` prints
    testCases,             \* the testCases array of the output file
    statistics,            \* the statistics object of the output file
    serve,                 \* serve-dashboard.sh: where the script stands
    cli,                   \* serve-dashboard.sh: what `command -v gh` found
    results,               \* components whose test-results.jsonld is on disk
    tried,                 \* the sources tried by download_compliance_matrix
    ret,                   \* what download_compliance_matrix returned
    refresh,               \* the auto-refresh background process
    download,              \* the component whose `gh run download` that
                           \* process has started and that still runs
    pidFile,               \* does .dashboard_refresh.pid exist
    python,                \* the interpreter `command -v` found
    exitStatus,            \* exit status of serve-dashboard.sh
    fetchRun,              \* fetch scripts: the script run and who runs it
    fetchAt,               \* fetch scripts: where the script stands
    fetchIdx,              \* fetch scripts: $i of the for loop
    fetchFiles,            \* fetch scripts: what each component's file holds
    fetchLog,              \* fetch scripts: the lines printed
    fetchExit,             \* fetch scripts: exit status of the script
    fetch_success,         \* the step output fetch_success
    pc,                    \* where the script stands
    fileIdx,               \* index of the file the current forEach stands at
    componentName,         \* path-derived component of the file being read
    allRequirements,       \* Map id -> record, source and component added
    componentRequirements, \* Map component -> Map id -> element
    testMappings,          \* array of test-to-requirement mappings
    hierarchyErrors, prefixErrors, testMapErrors, formatErrors,
    totalErrors,
    summary,               \* the EARLY VALIDATION SUMMARY, once printed
    log,                   \* console lines: errors, warnings, banners
    exitCode               \* process exit code, Running until the exit

inputVars == <<args, globResult, corpus, reqDocs, mapDocs>>
argVars   == <<mode, requirementsFiles, testMappingFiles, testResultsDir>>
resultVars == <<resultsTree, resDocs, testFiles, errors, warnings, correct>>
rerunVars == <<runNo, first>>
pipelineVars == <<job, at, repoIdx, validatorExit, triggered, runId, done,
                  attempt, polled, STATUS, CONCLUSION, github, others>>
matrixVars == <<systemFile, componentFiles, step, fileNo, ALL_REQUIREMENTS,
                subshell, matrix, resultFiles, testCases, statistics>>
serveVars == <<serve, cli, results, tried, ret, refresh, download, pidFile, python,
               exitStatus>>
fetchVars == <<fetchRun, fetchAt, fetchIdx, fetchFiles, fetchLog, fetchExit,
               fetch_success>>
shellVars == <<serveVars, fetchVars>>
loadVars  == <<allRequirements, componentRequirements, testMappings>>
countVars == <<hierarchyErrors, prefixErrors, testMapErrors, formatErrors, totalErrors>>
vars == <<inputVars, argVars, pc, fileIdx, componentName, loadVars, countVars,
          resultVars, rerunVars, pipelineVars, matrixVars, shellVars, summary, log,
          exitCode>>

Running == -1
NoSummary ==
    [printed |-> FALSE, requirements |-> 0, testMappings |-> 0,
     components |-> 0, errors |-> 0]

\* What a run leaves behind for whoever looks at it: the four error counts,
\* the total, the errors of test-results mode and the exit code.
Outcome ==
    [hierarchyErrors |-> hierarchyErrors, prefixErrors |-> prefixErrors,
     testMapErrors |-> testMapErrors, formatErrors |-> formatErrors,
     totalErrors |-> totalErrors, errors |-> errors, exitCode |-> exitCode]

\* The files a run has read, and how it ended.
RunRecord(rd, md, tree, sd, outcome) ==
    [reqDocs |-> rd, mapDocs |-> md, resultsTree |-> tree, resDocs |-> sd,
     outcome |-> outcome]

NoFirst ==
    RunRecord(<<>>, <<>>, NoTree, <<>>,
              [hierarchyErrors |-> 0, prefixErrors |-> 0, testMapErrors |-> 0,
               formatErrors |-> 0, totalErrors |-> 0, errors |-> 0,
               exitCode |-> Running])

\* Records read so far, against MaxRecords.
RECURSIVE SumWeights(_)
SumWeights(graph) ==
    IF graph = <<>> THEN 0 ELSE Weight(Head(graph)) + SumWeights(Tail(graph))

RECURSIVE UsedIn(_, _)
UsedIn(docs, isMapping) ==
    IF docs = <<>> THEN 0
    ELSE (IF isMapping THEN SumWeights(Head(docs).graph) ELSE Len(Head(docs).graph))
         + UsedIn(Tail(docs), isMapping)

\* The test cases of the result documents read so far.
RECURSIVE UsedInResults(_)
UsedInResults(docs) ==
    IF docs = <<>> THEN 0
    ELSE Len(extractTestCases(Head(docs).doc)) + UsedInResults(Tail(docs))

Used == UsedIn(reqDocs, FALSE) + UsedIn(mapDocs, TRUE) + UsedInResults(resDocs)

(***************************************************************************)
(* The CI/CD pipeline: the orchestrator workflow and the workflow runs     *)
(* GitHub holds.                                                           *)
(***************************************************************************)
\* The component repositories, in the order the orchestrator names them.
Repos == <<"journaltrove-ios", "journaltrove-android", "journaltrove-ipfs">>
ComplianceMatrix == "compliance-matrix.yml"
TestResultsValidation == "Test Results Validation"
RepoSet == {Repos[i] : i \in 1..Len(Repos)}
Dispatched == RepoSet \cup {ComplianceMatrix}
Workflows == Dispatched \cup {TestResultsValidation}

\* The jobs of the orchestrator, and what each needs.
Jobs == <<"early-validation", "trigger-component-workflows",
          "trigger-system-workflows">>
JobSet == {Jobs[i] : i \in 1..Len(Jobs)}
Needs(j) ==
    IF j = "trigger-component-workflows" THEN {"early-validation"}
    ELSE IF j = "trigger-system-workflows" THEN {"trigger-component-workflows"}
    ELSE {}
FirstStep(j) ==
    IF j = "early-validation" THEN "fetch"
    ELSE IF j = "trigger-component-workflows" THEN "trigger"
    ELSE "trigger-compliance-matrix"

\* One run of a workflow as GitHub holds it.  Its databaseId is its place
\* in the list of the workflow's runs; `origin` tells what created it and
\* `after` which Compliance Matrix run a workflow_run event came from.
\* The statuses before "completed" are one status here: the orchestrator
\* compares with "completed" only.
WorkflowRun(origin, status, conclusion, after) ==
    [origin |-> origin, status |-> status, conclusion |-> conclusion,
     after |-> after]
NewRun(origin, after) == WorkflowRun(origin, "in_progress", null, after)
Conclusions == {"success", "failure"}

\* The runs of earlier pipelines: iOS ended well, Android failed, IPFS has
\* never run, and the system workflows ran once.
EarlierRuns ==
    [w \in Workflows |->
        IF w = "journaltrove-ios"
        THEN << WorkflowRun("earlier", "completed", "success", 0) >>
        ELSE IF w = "journaltrove-android"
        THEN << WorkflowRun("earlier", "completed", "failure", 0) >>
        ELSE IF w = ComplianceMatrix
        THEN << WorkflowRun("earlier", "completed", "success", 0) >>
        ELSE IF w = TestResultsValidation
        THEN << WorkflowRun("earlier", "completed", "success", 1) >>
        ELSE << >>]

NoRunIds == [w \in {} |-> 0]

\* An orchestrator run that has just been dispatched.
PipelineStart ==
    /\ job = [j \in JobSet |-> IF Needs(j) = {} THEN "running" ELSE "waiting"]
    /\ at = "fetch"
    /\ repoIdx = 1
    /\ validatorExit = Running
    /\ triggered = {}
    /\ runId = NoRunIds
    /\ done = [w \in RepoSet |-> FALSE]
    /\ attempt = 0
    /\ polled = null
    /\ STATUS = ""
    /\ CONCLUSION = ""
    /\ github = EarlierRuns
    /\ others = 0

(***************************************************************************)
(* The compliance matrix: aggregate_jsonld_compliance.sh, Steps 1 and 2.   *)
(***************************************************************************)
\* The elements the requirements files of the aggregation are drawn from:
\* a system requirement, one whose id is a property every JavaScript object
\* inherits, one that declares no component, one whose component is null,
\* a requirement of a component, and an element that is no requirement.
MatrixItems ==
    { GraphItem("Requirement", undefined, "System.1", undefined, undefined, "System"),
      GraphItem("Requirement", undefined, "constructor", undefined, undefined, "System"),
      GraphItem(undefined, "Requirement", undefined, "System.9", undefined, undefined),
      GraphItem("Requirement", undefined, "System.9", undefined, undefined, null),
      GraphItem("Requirement", undefined, "System.1.iOS.1", undefined, "System.1", "iOS"),
      GraphItem("TestCase", undefined, "Req.1", undefined, undefined, undefined) }

RECURSIVE GraphsOfLen(_)
GraphsOfLen(n) ==
    IF n = 0 THEN { <<>> }
    ELSE { Append(g, x) : g \in GraphsOfLen(n - 1), x \in MatrixItems }
GraphsUpTo(n) == UNION { GraphsOfLen(k) : k \in 0..n }

\* $BASE_DIR/requirements/requirements.jsonld as the script finds it:
\* missing, not JSON ("badjson"), JSON in which ."@graph"[] cannot be
\* iterated ("nograph": {} for one), or a document with an @graph array.
SystemFile(status, graph) == [status |-> status, graph |-> graph]
\* A file `find` prints: its path, its @graph, and its status: "badjson"
\* when `jq empty` rejects it, "nograph" when it is JSON in which
\* ."@graph"[] cannot be iterated.
ComponentFile(path, status, graph) ==
    [path |-> path, status |-> status, graph |-> graph]

SystemFiles(n) ==
    { SystemFile("missing", <<>>), SystemFile("badjson", <<>>),
      SystemFile("nograph", <<>>) }
        \cup { SystemFile("ok", g) : g \in GraphsUpTo(n) }
ComponentFilesOf(path, n) ==
    { ComponentFile(path, "badjson", <<>>), ComponentFile(path, "nograph", <<>>) }
        \cup { ComponentFile(path, "ok", g) : g \in GraphsUpTo(n) }

\* A test case of a result file, and the result files: `find` prints no
\* file or one file of component iOS, with test cases that verify a system
\* requirement, a component requirement, an inherited property name or
\* nothing, and that passed ("Pass" or "Passed"), failed or were skipped.
ResultCase(verifies, result) ==
    [atId |-> "tc", verifies |-> verifies, result |-> result]
\* A test case whose @id holds a newline, and one whose verifies ends with
\* a newline.
TwoLineCase == [atId |-> "tc\nb", verifies |-> "System.1", result |-> "Pass"]
TwoLineVerifies == [atId |-> "tc", verifies |-> "System.1\n", result |-> "Pass"]
ResultCases ==
    { ResultCase("System.1", "Pass"), ResultCase("System.1", "Passed"),
      ResultCase("System.1", "Fail"), ResultCase("System.1.iOS.1", "Pass"),
      ResultCase(undefined, "Skipped"), ResultCase("constructor", "Pass"),
      TwoLineCase, TwoLineVerifies }
RECURSIVE CasesOfLen(_)
CasesOfLen(n) ==
    IF n = 0 THEN { <<>> }
    ELSE { Append(cs, c) : cs \in CasesOfLen(n - 1), c \in ResultCases }
\* A result file: "badjson" when `jq empty` rejects it, "nosuites" when it
\* is JSON in which .["@graph"][0].testSuites[].testCases[] cannot be
\* iterated ({} and {"@graph": []} for two), else the test cases of its
\* suites.
ResultFileOf(component, status, cases) ==
    [component |-> component, status |-> status, cases |-> cases]
ResultFilesUpTo(n) ==
    { <<>>, << ResultFileOf("iOS", "badjson", <<>>) >>,
      << ResultFileOf("iOS", "nosuites", <<>>) >> }
        \cup { << ResultFileOf("iOS", "ok", cs) >> :
                 cs \in UNION { CasesOfLen(k) : k \in 0..n } }

\* What the script can find on disk: the system file, under components/ no
\* file, the iOS file, or the iOS and the Android file, and the result
\* files, with at most MaxRecords elements and test cases in all.
MatrixInput(systemFile_, componentFiles_, resultFiles_) ==
    [systemFile |-> systemFile_, componentFiles |-> componentFiles_,
     resultFiles |-> resultFiles_]
RequirementInputs ==
    { <<s, <<>>, Len(s.graph)>> : s \in SystemFiles(MaxRecords) }
    \cup UNION { { <<s, <<a>>, Len(s.graph) + Len(a.graph)>> :
                     a \in ComponentFilesOf(IosReqs, MaxRecords - Len(s.graph)) } :
                 s \in SystemFiles(MaxRecords) }
    \cup UNION { UNION { { <<s, <<a, b>>, Len(s.graph) + Len(a.graph) + Len(b.graph)>> :
                             b \in ComponentFilesOf(AndroidReqs,
                                     MaxRecords - Len(s.graph) - Len(a.graph)) } :
                         a \in ComponentFilesOf(IosReqs, MaxRecords - Len(s.graph)) } :
                 s \in SystemFiles(MaxRecords) }
MatrixInputs ==
    UNION { { MatrixInput(r[1], r[2], f) : f \in ResultFilesUpTo(MaxRecords - r[3]) } :
            r \in RequirementInputs }
\* No aggregation is run: nothing on disk.
MatrixIdle == MatrixInput(SystemFile("missing", <<>>), <<>>, <<>>)
NoStatistics ==
    [totalRequirements |-> 0, testedRequirements |-> 0,
     untestedRequirements |-> 0, totalTests |-> 0, passingTests |-> 0,
     failingTests |-> 0]

\* The components of the fetch scripts: cut -d'/' -f2 | cut -d'-' -f2 of
\* the repository names.
FetchComponents == {"ios", "android", "ipfs"}
\* No fetch script has been started.
NoFetch == [script |-> null, caller |-> null]

\* jq: select(.type == "Requirement" or ."@type" == "Requirement")
SelectsRequirement(item) ==
    item.type = "Requirement" \/ item.atType = "Requirement"
\* jq: select(.component == "System" or .component == null), where
\* .component is null for an element that has no such field and for one
\* whose field is null.
IsSystemLevel(item) ==
    item.component = "System" \/ item.component \in {undefined, null}
\* jq: a // b
Alternative(a, b) == IF a # undefined /\ a # null THEN a ELSE b
\* jq: the value of a field the element does not have is null.
JsonValue(x) == IF x = undefined THEN null ELSE x
\* The object jq builds from a requirement; it has no field "tested".
MatrixEntry(item, component) ==
    [atId |-> JsonValue(Alternative(item.id, item.atId)),
     component |-> component,
     parent |-> JsonValue(item.parent), tested |-> undefined]

RECURSIVE SystemEntries(_)
SystemEntries(graph) ==
    IF graph = <<>> THEN <<>>
    ELSE (IF SelectsRequirement(Head(graph)) /\ IsSystemLevel(Head(graph))
          THEN << MatrixEntry(Head(graph), "System") >> ELSE <<>>)
         \o SystemEntries(Tail(graph))

RECURSIVE ComponentEntries(_, _)
ComponentEntries(graph, component) ==
    IF graph = <<>> THEN <<>>
    ELSE (IF SelectsRequirement(Head(graph))
          THEN << MatrixEntry(Head(graph), component) >> ELSE <<>>)
         \o ComponentEntries(Tail(graph), component)

\* component=$(basename "$(dirname "$(dirname "$req_file")")")
ComponentOfPath(req_file) == StrOf(basename(dirname(dirname(Chars[req_file]))))

\* The state of a process started on one of `runs`, with one of `inputs`
\* on disk for the aggregation.
StartOf(runs, inputs) ==
    /\ \E r \in runs :
         /\ args = r.args
         /\ globResult = r.globResult
         /\ corpus = r.corpus
    /\ reqDocs = <<>>
    /\ mapDocs = <<>>
    /\ mode = null
    /\ requirementsFiles = <<>>
    /\ testMappingFiles = <<>>
    /\ testResultsDir = null
    /\ resultsTree = NoTree
    /\ resDocs = <<>>
    /\ testFiles = <<>>
    /\ errors = 0
    /\ warnings = 0
    /\ correct = 0
    /\ runNo = 1
    /\ first = NoFirst
    /\ PipelineStart
    /\ \E m \in inputs :
         /\ systemFile = m.systemFile
         /\ componentFiles = m.componentFiles
         /\ resultFiles = m.resultFiles
    /\ step = "check"
    /\ fileNo = 0
    /\ ALL_REQUIREMENTS = <<>>
    /\ subshell = <<>>
    /\ matrix = <<>>
    /\ testCases = <<>>
    /\ statistics = NoStatistics
    /\ serve = "check-gh"
    /\ cli = "unknown"
    /\ results = {}
    /\ tried = <<>>
    /\ ret = Running
    /\ refresh = "none"
    /\ download = null
    /\ pidFile = FALSE
    /\ python = "unknown"
    /\ exitStatus = Running
    /\ fetchRun = NoFetch
    /\ fetchAt = "idle"
    /\ fetchIdx = 0
    /\ fetchFiles = [c \in FetchComponents |-> "absent"]
    /\ fetchLog = <<>>
    /\ fetchExit = Running
    /\ fetch_success = "unset"
    /\ pc = "args"
    /\ fileIdx = 0
    /\ componentName = undefined
    /\ allRequirements = <<>>
    /\ componentRequirements = <<>>
    /\ testMappings = <<>>
    /\ hierarchyErrors = 0
    /\ prefixErrors = 0
    /\ testMapErrors = 0
    /\ formatErrors = 0
    /\ totalErrors = 0
    /\ summary = NoSummary
    /\ log = <<>>
    /\ exitCode = Running

InitOf(runs) == StartOf(runs, {MatrixIdle})

Init == InitOf(Runs)

\* process.exit(code) after printing `line`.
Exit(code, line) ==
    /\ pc' = "exit"
    /\ exitCode' = code
    /\ log' = Append(log, line)

\* Giving up that only records the exit code and lets the script go on.
FailKeepsRunning(line) ==
    /\ pc' = "validation1"
    /\ exitCode' = 1
    /\ log' = Append(log, line)

\* console.error(line); process.exit(1): how the script gives up.
Fail(line) == Exit(1, line)

(***************************************************************************)
(* Command line.                                                           *)
(***************************************************************************)
\* args.indexOf(x), one-based; 0 when absent.
IndexOf(a, x) ==
    IF \E i \in 1..Len(a) : a[i] = x
    THEN CHOOSE i \in 1..Len(a) : a[i] = x /\ \A j \in 1..(i - 1) : a[j] # x
    ELSE 0

ArgsInclude(a, x) == IndexOf(a, x) > 0

ModeOf(a) ==
    IF ArgsInclude(a, "--early") THEN "early"
    ELSE IF ArgsInclude(a, "--test-results") THEN "test-results"
    ELSE null

\* Is the pattern after --test-mappings present?
HasMappingPattern(a) ==
    IndexOf(a, "--test-mappings") > 0 /\ IndexOf(a, "--test-mappings") + 1 <= Len(a)

\* Does an argument follow --test-results?
HasResultsDir(a) == IndexOf(a, "--test-results") + 1 <= Len(a)

RequirementsFilesOf(a) ==
    IF ModeOf(a) = "early"
    THEN IF HasMappingPattern(a)
         THEN SubSeq(a, IndexOf(a, "--early") + 1, IndexOf(a, "--test-mappings") - 1)
         ELSE SubSeq(a, IndexOf(a, "--early") + 1, Len(a))
    ELSE IF HasResultsDir(a)
         THEN SubSeq(a, IndexOf(a, "--test-results") + 2, Len(a))
         ELSE <<>>

TestMappingFilesOf(a, matched) ==
    IF ModeOf(a) = "early" /\ HasMappingPattern(a) THEN matched ELSE <<>>

TestResultsDirOf(a) ==
    IF ModeOf(a) = "test-results" /\ HasResultsDir(a)
    THEN a[IndexOf(a, "--test-results") + 1]
    ELSE null

ParseArgs ==
    /\ pc = "args"
    /\ mode' = ModeOf(args)
    /\ IF ModeOf(args) = null \/ Len(args) < 2
       THEN /\ Fail(<<"usage">>)
            /\ UNCHANGED <<requirementsFiles, testMappingFiles, testResultsDir,
                           fileIdx>>
       ELSE /\ requirementsFiles' = RequirementsFilesOf(args)
            /\ testMappingFiles' = TestMappingFilesOf(args, globResult)
            /\ testResultsDir' = TestResultsDirOf(args)
            /\ IF RequirementsFilesOf(args) = <<>>
               THEN /\ Fail(<<"error", "no-requirements-files">>)
                    /\ UNCHANGED fileIdx
               ELSE IF ModeOf(args) = "test-results" /\ ~Truthy(TestResultsDirOf(args))
               THEN /\ Fail(<<"error", "no-results-directory">>)
                    /\ UNCHANGED fileIdx
               ELSE /\ pc' = "requirementsFiles"
                    /\ fileIdx' = 1
                    /\ UNCHANGED <<log, exitCode>>
    /\ UNCHANGED <<inputVars, componentName, loadVars, countVars, resultVars,
                   rerunVars, pipelineVars, matrixVars, shellVars, summary>>

(***************************************************************************)
(* Loading the requirements files.                                         *)
(***************************************************************************)
\* The component a requirements file belongs to, from its path.
RequirementsComponentOf(filePath) ==
    LET p  == Chars[filePath]
        c0 == basename(dirname(p))
        c1 == IF c0 = Chars["requirements"] THEN basename(dirname(dirname(p))) ELSE c0
    IN  IF \/ includes(p, Chars["journaltrove-system/requirements"])
           \/ includes(p, Chars["system/requirements"])
        THEN "System"
        ELSE StrOf(c1)

Doc(path, status) == [path |-> path, status |-> status, graph |-> <<>>]

\* docs with `item` added to the @graph of the file being read.
WithItem(docs, item) ==
    [docs EXCEPT ![Len(docs)].graph = Append(@, item)]

OpenRequirementsFile ==
    /\ pc = "requirementsFiles"
    /\ fileIdx <= Len(requirementsFiles)
    /\ \E status \in FileStatus :
         LET filePath == requirementsFiles[fileIdx] IN
         /\ reqDocs' = Append(reqDocs, Doc(filePath, status))
         /\ CASE status = "missing" ->
                   /\ Fail(<<"error", "not-found", filePath>>)
                   /\ UNCHANGED componentName
              [] status = "unreadable" ->
                   /\ Fail(<<"error", "processing", filePath>>)
                   /\ UNCHANGED componentName
              [] status = "badjson" ->
                   /\ Fail(<<"error", "parse", filePath>>)
                   /\ UNCHANGED componentName
              [] status = "null" ->
                   /\ Fail(<<"error", "processing", filePath>>)
                   /\ componentName' = RequirementsComponentOf(filePath)
              [] status = "nograph" ->
                   /\ Fail(<<"error", "no-graph", filePath>>)
                   /\ componentName' = RequirementsComponentOf(filePath)
              [] OTHER ->
                   /\ pc' = "requirementItems"
                   /\ componentName' = RequirementsComponentOf(filePath)
                   /\ UNCHANGED <<log, exitCode>>
    /\ UNCHANGED <<args, globResult, corpus, mapDocs, argVars, rerunVars, pipelineVars, matrixVars, shellVars, resultVars, fileIdx,
                   loadVars, countVars, summary>>

IsRequirement(item) == item.type = "Requirement" \/ item.atType = "Requirement"

\* item.id || item['@id']
IdOf(item) == IF Truthy(item.id) THEN item.id ELSE item.atId

\* A loader that never takes a record for unidentified.
MissingIdNever(id) == FALSE

\* if (!id): the record is reported and skipped.
MissingId(id) == ~Truthy(id)

\* { ...item, source: filePath, component: componentName }
RegistryRecord(item, filePath, component) ==
    [type |-> item.type, atType |-> item.atType, id |-> item.id,
     atId |-> item.atId, parent |-> item.parent,
     source |-> filePath, component |-> component]

\* componentRequirements after the element is added under `component`.
AddToComponent(cr, component, id, item) ==
    LET reqs == IF MapHas(cr, component) THEN MapGet(cr, component) ELSE <<>>
    IN  MapSet(cr, component, MapSet(reqs, id, item))

RequirementItem ==
    /\ pc = "requirementItems"
    /\ Used < MaxRecords
    /\ \E item \in ReqItemPool(corpus) :
         LET filePath == requirementsFiles[fileIdx]
             id == IdOf(item)
         IN
         /\ reqDocs' = WithItem(reqDocs, item)
         /\ IF item = NullItem
            THEN /\ Fail(<<"error", "processing", filePath>>)
                 /\ UNCHANGED <<allRequirements, componentRequirements>>
            ELSE IF ~IsRequirement(item)
            THEN UNCHANGED <<allRequirements, componentRequirements, log,
                             pc, exitCode>>
            ELSE IF MissingId(id)
            THEN /\ log' = Append(log, <<"error", "missing-id", filePath>>)
                 /\ UNCHANGED <<allRequirements, componentRequirements, pc,
                                exitCode>>
            ELSE /\ allRequirements' =
                        MapSet(allRequirements, id,
                               RegistryRecord(item, filePath, componentName))
                 /\ componentRequirements' =
                        AddToComponent(componentRequirements, componentName, id, item)
                 /\ UNCHANGED <<log, pc, exitCode>>
    /\ UNCHANGED <<args, globResult, corpus, mapDocs, argVars, rerunVars, pipelineVars, matrixVars, shellVars, resultVars, fileIdx,
                   componentName, testMappings, countVars, summary>>

\* The step the script takes once every requirements file is read.
AfterRequirements ==
    IF mode = "early" /\ Len(testMappingFiles) > 0 THEN "testMappingFiles"
    ELSE IF mode = "early" THEN "validation1"
    ELSE "findTestResultFiles"

EndOfRequirementsGraph ==
    /\ pc = "requirementItems"
    /\ IF fileIdx < Len(requirementsFiles)
       THEN /\ pc' = "requirementsFiles"
            /\ fileIdx' = fileIdx + 1
       ELSE /\ pc' = AfterRequirements
            /\ fileIdx' = 1
    /\ UNCHANGED <<inputVars, argVars, rerunVars, pipelineVars, matrixVars, shellVars, resultVars, componentName, loadVars, countVars,
                   summary, log, exitCode>>

(***************************************************************************)
(* Loading the test-mapping files (early mode).                            *)
(***************************************************************************)
\* The component a test-mapping file belongs to, from its path.
MappingComponentOf(filePath) ==
    LET p  == Chars[filePath]
        c0 == basename(dirname(p))
    IN  IF c0 = Chars["test-mappings"]
        THEN StrOf(basename(dirname(dirname(p))))
        ELSE StrOf(c0)

OpenTestMappingFile ==
    /\ pc = "testMappingFiles"
    /\ fileIdx <= Len(testMappingFiles)
    /\ \E status \in FileStatus :
         LET filePath == testMappingFiles[fileIdx] IN
         /\ mapDocs' = Append(mapDocs, Doc(filePath, status))
         /\ CASE status = "missing" ->
                   /\ Fail(<<"error", "not-found", filePath>>)
                   /\ UNCHANGED componentName
              [] status = "unreadable" ->
                   /\ Fail(<<"error", "processing", filePath>>)
                   /\ UNCHANGED componentName
              [] status = "badjson" ->
                   /\ Fail(<<"error", "parse", filePath>>)
                   /\ UNCHANGED componentName
              [] status = "null" ->
                   /\ Fail(<<"error", "processing", filePath>>)
                   /\ componentName' = MappingComponentOf(filePath)
              [] status = "nograph" ->
                   /\ Fail(<<"error", "no-graph", filePath>>)
                   /\ componentName' = MappingComponentOf(filePath)
              [] OTHER ->
                   /\ pc' = "testMappingItems"
                   /\ componentName' = MappingComponentOf(filePath)
                   /\ UNCHANGED <<log, exitCode>>
    /\ UNCHANGED <<args, globResult, corpus, reqDocs, argVars, rerunVars, pipelineVars, matrixVars, shellVars, resultVars, fileIdx,
                   loadVars, countVars, summary>>

\* The entry pushed for a test case: testCase['@id'] || testCase.id, ...
Mapping(testCase, filePath, component) ==
    [id |-> IF Truthy(testCase.atId) THEN testCase.atId ELSE testCase.id,
     name |-> testCase.name, verifies |-> testCase.verifies,
     source |-> filePath, component |-> component]

\* Does reading the suite throw?  suite.testCases of null, or
\* testCase.verifies of null inside suite.testCases.forEach.
SuiteThrows(suite) ==
    \/ suite = NullSuite
    \/ /\ suite.casesIsArray
       /\ \E i \in 1..Len(suite.testCases) : suite.testCases[i] = NullCase

\* suite.testCases.forEach: a test case is pushed if (testCase.verifies);
\* the forEach ends at a null test case, where reading .verifies throws.
RECURSIVE PushCases(_, _, _)
PushCases(cases, filePath, component) ==
    IF cases = <<>> THEN <<>>
    ELSE IF Head(cases) = NullCase THEN <<>>
    ELSE (IF Truthy(Head(cases).verifies)
          THEN <<Mapping(Head(cases), filePath, component)>>
          ELSE <<>>)
         \o PushCases(Tail(cases), filePath, component)

\* item.testSuites.forEach, up to the suite that throws.
RECURSIVE PushSuites(_, _, _)
PushSuites(suites, filePath, component) ==
    IF suites = <<>> THEN <<>>
    ELSE (IF Head(suites).casesIsArray
          THEN PushCases(Head(suites).testCases, filePath, component)
          ELSE <<>>)
         \o (IF SuiteThrows(Head(suites)) THEN <<>>
             ELSE PushSuites(Tail(suites), filePath, component))

\* Is the element read as a set of test mappings?
IsTestMappings(item) ==
    /\ item.type = "TestMappings" \/ item.atType = "TestMappings"
    /\ item.suitesIsArray

\* What one @graph element of a test-mapping file adds to testMappings.
ExtractMappings(item, filePath, component) ==
    IF item # NullMappingItem /\ IsTestMappings(item)
    THEN PushSuites(item.testSuites, filePath, component)
    ELSE <<>>

\* Does reading the element throw?  item.type of null, or a suite of the
\* element that throws.
MappingThrows(item) ==
    \/ item = NullMappingItem
    \/ /\ IsTestMappings(item)
       /\ \E i \in 1..Len(item.testSuites) : SuiteThrows(item.testSuites[i])

TestMappingItem ==
    /\ pc = "testMappingItems"
    /\ \E item \in MapItemPool(MaxRecords - Used) :
         /\ mapDocs' = WithItem(mapDocs, item)
         /\ testMappings' =
                testMappings \o
                ExtractMappings(item, testMappingFiles[fileIdx], componentName)
         /\ IF MappingThrows(item)
            THEN Fail(<<"error", "processing", testMappingFiles[fileIdx]>>)
            ELSE UNCHANGED <<pc, log, exitCode>>
    /\ UNCHANGED <<args, globResult, corpus, reqDocs, argVars, rerunVars, pipelineVars, matrixVars, shellVars, resultVars, fileIdx,
                   componentName, allRequirements, componentRequirements,
                   countVars, summary>>

EndOfTestMappingGraph ==
    /\ pc = "testMappingItems"
    /\ IF fileIdx < Len(testMappingFiles)
       THEN /\ pc' = "testMappingFiles"
            /\ fileIdx' = fileIdx + 1
       ELSE /\ pc' = "validation1"
            /\ fileIdx' = 1
    /\ UNCHANGED <<inputVars, argVars, rerunVars, pipelineVars, matrixVars, shellVars, resultVars, componentName, loadVars, countVars,
                   summary, log, exitCode>>

(***************************************************************************)
(* runEarlyValidation.                                                     *)
(***************************************************************************)
\* `.${component}.`
Dotted(component) == <<".">> \o Chars[component] \o <<".">>

\* expectParentToExist without its system-level alternative.
ExpectParentToExistInComponentOnly(parent, component) ==
    includes(Chars[parent], Dotted(component))

\* expectParentToExist of VALIDATION 1.
ExpectParentToExist(parent, component) ==
    \/ includes(Chars[parent], Dotted(component))
    \/ startsWith(Chars[parent], Chars["System."])

\* Does VALIDATION 1 report the registry entry <<id, req>>?
HierarchyError(reg, req) ==
    /\ Truthy(req.parent)
    /\ ExpectParentToExist(req.parent, req.component)
    /\ ~MapHas(reg, req.parent)

\* allRequirements.forEach of VALIDATION 1: the error lines, in order.
RECURSIVE HierarchyScan(_, _)
HierarchyScan(reg, i) ==
    IF i > Len(reg) THEN <<>>
    ELSE (IF HierarchyError(reg, reg[i][2])
          THEN << <<"error", "parent", reg[i][1], reg[i][2].parent>> >>
          ELSE <<>>)
         \o HierarchyScan(reg, i + 1)

\* totalErrors = n in place of totalErrors += n.
AddErrorsOverwrites(total, n) == IF n = 0 THEN total ELSE n

\* totalErrors after a validation that found n errors.
AddErrors(total, n) == IF n = 0 THEN total ELSE total + n

\* The closing line of a validation.
Verdict(check, n) == IF n = 0 THEN <<"ok", check>> ELSE <<"failed", check>>

Validation1 ==
    /\ pc = "validation1"
    /\ mode = "early"
    /\ LET lines == HierarchyScan(allRequirements, 1) IN
         /\ hierarchyErrors' = Len(lines)
         /\ totalErrors' = AddErrors(0, Len(lines))
         /\ log' = log \o << <<"banner", "hierarchy">> >> \o lines
                       \o << Verdict("hierarchy", Len(lines)) >>
    /\ pc' = "validation2"
    /\ UNCHANGED <<inputVars, argVars, rerunVars, pipelineVars, matrixVars, shellVars, resultVars, fileIdx, componentName, loadVars,
                   prefixErrors, testMapErrors, formatErrors, summary, exitCode>>

\* Does VALIDATION 2 report the element `req` kept under <<component, id>>?
PrefixError(component, id, req) ==
    /\ includes(Chars[id], Dotted(component))
    /\ req.component # component

\* reqs.forEach of VALIDATION 2.
RECURSIVE PrefixScanComponent(_, _, _)
PrefixScanComponent(component, reqs, i) ==
    IF i > Len(reqs) THEN <<>>
    ELSE (IF PrefixError(component, reqs[i][1], reqs[i][2])
          THEN << <<"error", "prefix", reqs[i][1], component>> >>
          ELSE <<>>)
         \o PrefixScanComponent(component, reqs, i + 1)

\* The skip of VALIDATION 2 with its test inverted.
SkipComponentInverted(component) == component # "System"

\* Does VALIDATION 2 pass over the component?
SkipComponent(component) == component = "System"

\* componentRequirements.forEach of VALIDATION 2.
RECURSIVE PrefixScan(_, _)
PrefixScan(cr, i) ==
    IF i > Len(cr) THEN <<>>
    ELSE (IF SkipComponent(cr[i][1]) THEN <<>>
          ELSE PrefixScanComponent(cr[i][1], cr[i][2], 1))
         \o PrefixScan(cr, i + 1)

Validation2 ==
    /\ pc = "validation2"
    /\ LET lines == PrefixScan(componentRequirements, 1) IN
         /\ prefixErrors' = Len(lines)
         /\ totalErrors' = AddErrors(totalErrors, Len(lines))
         /\ log' = log \o << <<"banner", "prefix">> >> \o lines
                       \o << Verdict("prefix", Len(lines)) >>
    /\ pc' = "validation3"
    /\ UNCHANGED <<inputVars, argVars, rerunVars, pipelineVars, matrixVars, shellVars, resultVars, fileIdx, componentName, loadVars,
                   hierarchyErrors, testMapErrors, formatErrors, summary, exitCode>>

\* VALIDATION 3 looking up the test's id in place of mapping.verifies.
RECURSIVE MappingScanById(_, _, _)
MappingScanById(reg, tm, i) ==
    IF i > Len(tm) THEN <<>>
    ELSE (IF ~Truthy(tm[i].verifies)
          THEN << <<"warning", "verifies-nothing", tm[i].name>> >>
          ELSE IF ~MapHas(reg, tm[i].id)
          THEN << <<"error", "mapping", tm[i].name, tm[i].verifies>> >>
          ELSE <<>>)
         \o MappingScanById(reg, tm, i + 1)

\* testMappings.forEach of VALIDATION 3: warnings and error lines, in order.
RECURSIVE MappingScan(_, _, _)
MappingScan(reg, tm, i) ==
    IF i > Len(tm) THEN <<>>
    ELSE (IF ~Truthy(tm[i].verifies)
          THEN << <<"warning", "verifies-nothing", tm[i].name>> >>
          ELSE IF ~MapHas(reg, tm[i].verifies)
          THEN << <<"error", "mapping", tm[i].name, tm[i].verifies>> >>
          ELSE <<>>)
         \o MappingScan(reg, tm, i + 1)

\* The number of error lines among `lines`.
ErrorCount(lines) == Cardinality({i \in 1..Len(lines) : lines[i][1] = "error"})

\* VALIDATION 3 taking the mappings off the list as it goes through them.
Validation3ConsumesMappings ==
    /\ pc = "validation3"
    /\ LET lines == MappingScan(allRequirements, testMappings, 1) IN
         /\ testMapErrors' = ErrorCount(lines)
         /\ totalErrors' = AddErrors(totalErrors, ErrorCount(lines))
         /\ log' = log \o << <<"banner", "mappings">> >> \o lines
                       \o << Verdict("mappings", ErrorCount(lines)) >>
    /\ testMappings' = <<>>
    /\ pc' = "validation4"
    /\ UNCHANGED <<inputVars, argVars, rerunVars, pipelineVars, matrixVars, shellVars, resultVars, fileIdx, componentName,
                   allRequirements, componentRequirements,
                   hierarchyErrors, prefixErrors, formatErrors, summary, exitCode>>

Validation3 ==
    /\ pc = "validation3"
    /\ LET lines == MappingScan(allRequirements, testMappings, 1) IN
         /\ testMapErrors' = ErrorCount(lines)
         /\ totalErrors' = AddErrors(totalErrors, ErrorCount(lines))
         /\ log' = log \o << <<"banner", "mappings">> >> \o lines
                       \o << Verdict("mappings", ErrorCount(lines)) >>
    /\ pc' = "validation4"
    /\ UNCHANGED <<inputVars, argVars, rerunVars, pipelineVars, matrixVars, shellVars, resultVars, fileIdx, componentName, loadVars,
                   hierarchyErrors, prefixErrors, formatErrors, summary, exitCode>>

\* allRequirements.forEach of VALIDATION 4.
RECURSIVE FormatScan(_, _)
FormatScan(reg, i) ==
    IF i > Len(reg) THEN <<>>
    ELSE (IF ~systemFormatTest(Chars[reg[i][1]])
          THEN << <<"error", "format", reg[i][1]>> >>
          ELSE <<>>)
         \o FormatScan(reg, i + 1)

\* VALIDATION 4 run only when the earlier validations found nothing.
Validation4UnlessErrors ==
    /\ pc = "validation4"
    /\ IF totalErrors > 0
       THEN UNCHANGED <<formatErrors, totalErrors, log>>
       ELSE LET lines == FormatScan(allRequirements, 1) IN
              /\ formatErrors' = Len(lines)
              /\ totalErrors' = AddErrors(totalErrors, Len(lines))
              /\ log' = log \o << <<"banner", "format">> >> \o lines
                            \o << Verdict("format", Len(lines)) >>
    /\ pc' = "summary"
    /\ UNCHANGED <<inputVars, argVars, rerunVars, pipelineVars, matrixVars, shellVars, resultVars, fileIdx, componentName, loadVars,
                   hierarchyErrors, prefixErrors, testMapErrors, summary, exitCode>>

Validation4 ==
    /\ pc = "validation4"
    /\ LET lines == FormatScan(allRequirements, 1) IN
         /\ formatErrors' = Len(lines)
         /\ totalErrors' = AddErrors(totalErrors, Len(lines))
         /\ log' = log \o << <<"banner", "format">> >> \o lines
                       \o << Verdict("format", Len(lines)) >>
    /\ pc' = "summary"
    /\ UNCHANGED <<inputVars, argVars, rerunVars, pipelineVars, matrixVars, shellVars, resultVars, fileIdx, componentName, loadVars,
                   hierarchyErrors, prefixErrors, testMapErrors, summary, exitCode>>

\* A summary that exits with code 0 whatever the total.
EarlyExitCodeAlwaysZero(total) == 0

\* A summary that fails on a total of 0 as well.
EarlyExitCodeFromZero(total) == IF total >= 0 THEN 1 ELSE 0

\* The exit code of early validation.
EarlyExitCode(total) == IF total > 0 THEN 1 ELSE 0

FinalSummary ==
    /\ pc = "summary"
    /\ summary' = [printed |-> TRUE,
                   requirements |-> Len(allRequirements),
                   testMappings |-> Len(testMappings),
                   components |-> Len(componentRequirements),
                   errors |-> totalErrors]
    /\ Exit(EarlyExitCode(totalErrors),
            IF totalErrors > 0 THEN <<"validation-failed">>
                               ELSE <<"validation-successful">>)
    /\ UNCHANGED <<inputVars, argVars, rerunVars, pipelineVars, matrixVars, shellVars, resultVars, fileIdx, componentName, loadVars, countVars>>

(***************************************************************************)
(* Test results validation (test-results mode).                            *)
(***************************************************************************)
FindTestResultFiles ==
    /\ pc = "findTestResultFiles"
    /\ \E tree \in ResultTrees :
         LET found == findTestResultFiles(testResultsDir, tree) IN
         /\ resultsTree' = tree
         /\ testFiles' = found.files
         /\ log' = log \o found.lines
    /\ pc' = "testResultFiles"
    /\ fileIdx' = 1
    /\ UNCHANGED <<inputVars, argVars, rerunVars, pipelineVars, matrixVars, shellVars, componentName, loadVars, countVars,
                   resDocs, errors, warnings, correct, summary, exitCode>>

\* testCase['@id'] || testCase.name || 'unknown'
CaseLabel(testCase) ==
    IF Truthy(testCase.atId) THEN testCase.atId
    ELSE IF Truthy(testCase.name) THEN testCase.name
    ELSE "unknown"

\* The line testCases.forEach prints for one test case.
ResultLine(reg, testCase) ==
    IF ~Truthy(testCase.verifies)
    THEN <<"warning", "no-reference", CaseLabel(testCase)>>
    ELSE IF ~MapHas(reg, testCase.verifies)
    THEN <<"error", "reference", testCase.verifies>>
    ELSE LET req == MapGet(reg, testCase.verifies)
         IN <<"valid", testCase.verifies,
              IF Truthy(req.component) THEN req.component ELSE "unknown">>

\* testCases.forEach inside the try block of `testFile`: reading .verifies
\* of null throws, which leaves the forEach for the catch block.
RECURSIVE ResultLines(_, _, _)
ResultLines(reg, cases, testFile) ==
    IF cases = <<>> THEN <<>>
    ELSE IF Head(cases) = NullCase
    THEN << <<"error", "test-file", testFile>> >>
    ELSE <<ResultLine(reg, Head(cases))>>
         \o ResultLines(reg, Tail(cases), testFile)

\* How many of the lines are of the kind "error", "warning" or "valid".
CountLines(lines, kind) ==
    Cardinality({ i \in 1..Len(lines) : lines[i][1] = kind })

\* A result file as read: path, outcome, document.
ResultFileRead(path, status, doc) == [path |-> path, status |-> status, doc |-> doc]

\* The loop with `errors = ...` where the script has `errors++`: the count
\* of the file read last replaces the count so far.
ResultFileKeepsLast ==
    /\ pc = "testResultFiles"
    /\ fileIdx <= Len(testFiles)
    /\ \E status \in ResultStatus :
       \E doc \in IF status = "ok" THEN ResultDocPool(MaxRecords - Used)
                                   ELSE {ResultDoc(FALSE, <<>>)} :
         LET testFile == testFiles[fileIdx]
             lines == IF status = "ok"
                      THEN ResultLines(allRequirements, extractTestCases(doc),
                                       testFile)
                      ELSE << <<"error", "test-file", testFile>> >>
         IN  /\ resDocs' = Append(resDocs, ResultFileRead(testFile, status, doc))
             /\ errors' = CountLines(lines, "error")
             /\ warnings' = warnings + CountLines(lines, "warning")
             /\ correct' = correct + CountLines(lines, "valid")
             /\ log' = log \o lines
    /\ fileIdx' = fileIdx + 1
    /\ UNCHANGED <<inputVars, argVars, rerunVars, pipelineVars, matrixVars, shellVars, pc, componentName, loadVars, countVars,
                   resultsTree, testFiles, summary, exitCode>>

ResultFile ==
    /\ pc = "testResultFiles"
    /\ fileIdx <= Len(testFiles)
    /\ \E status \in ResultStatus :
       \E doc \in IF status = "ok" THEN ResultDocPool(MaxRecords - Used)
                                   ELSE {ResultDoc(FALSE, <<>>)} :
         LET testFile == testFiles[fileIdx]
             lines == IF status = "ok"
                      THEN ResultLines(allRequirements, extractTestCases(doc),
                                       testFile)
                      ELSE << <<"error", "test-file", testFile>> >>
         IN  /\ resDocs' = Append(resDocs, ResultFileRead(testFile, status, doc))
             /\ errors' = errors + CountLines(lines, "error")
             /\ warnings' = warnings + CountLines(lines, "warning")
             /\ correct' = correct + CountLines(lines, "valid")
             /\ log' = log \o lines
    /\ fileIdx' = fileIdx + 1
    /\ UNCHANGED <<inputVars, argVars, rerunVars, pipelineVars, matrixVars, shellVars, pc, componentName, loadVars, countVars,
                   resultsTree, testFiles, summary, exitCode>>

\* process.exit(errors > 0 ? 1 : 0)
ResultsExitCode(n) == IF n > 0 THEN 1 ELSE 0

ResultsSummary ==
    /\ pc = "testResultFiles"
    /\ fileIdx > Len(testFiles)
    /\ Exit(ResultsExitCode(errors), <<"validation-summary">>)
    /\ UNCHANGED <<inputVars, argVars, rerunVars, pipelineVars, matrixVars, shellVars, fileIdx, componentName, loadVars,
                   countVars, resultVars, summary>>

Next ==
    \/ ParseArgs
    \/ OpenRequirementsFile
    \/ RequirementItem
    \/ EndOfRequirementsGraph
    \/ OpenTestMappingFile
    \/ TestMappingItem
    \/ EndOfTestMappingGraph
    \/ Validation1
    \/ Validation2
    \/ Validation3
    \/ Validation4
    \/ FinalSummary
    \/ FindTestResultFiles
    \/ ResultFile
    \/ ResultsSummary

Spec == Init /\ [][Next]_vars

(***************************************************************************)
(* The script run a second time on the same files.                         *)
(***************************************************************************)
\* The runs that are repeated: early validation of a system and a component
\* file with two test-mapping files, and test-results validation.
RerunRuns ==
    { Run(<<"--early", SystemReqs, IosReqs, "--test-mappings", Pattern>>,
          <<IosMappings, AndroidMappings>>, "results"),
      Run(<<"--test-results", ResultsDir, SystemReqs>>, <<>>, "results") }

RerunInit == InitOf(RerunRuns)

\* Is s an initial part of t?
IsPrefix(s, t) == Len(s) <= Len(t) /\ SubSeq(t, 1, Len(s)) = s

\* docs are the files of `full` as far as they are read: the same paths
\* with the same outcome and the same @graph, of which the file being read
\* (`reading`) may show only an initial part yet.  The requirements files
\* are read in the order of the command line.
SameFiles(docs, full, reading) ==
    /\ Len(docs) <= Len(full)
    /\ \A d \in 1..Len(docs) :
         /\ docs[d].path = full[d].path
         /\ docs[d].status = full[d].status
         /\ IF reading /\ d = Len(docs)
            THEN IsPrefix(docs[d].graph, full[d].graph)
            ELSE docs[d].graph = full[d].graph

\* The same for the files of a listing, which the second run may meet in
\* another order: a file the first run has read is read with the same
\* outcome and the same @graph; of a file the first run ended without
\* reading nothing is known.
SameListedFiles(docs, full, reading) ==
    \A d \in 1..Len(docs) : \A e \in 1..Len(full) :
        full[e].path = docs[d].path =>
            /\ docs[d].status = full[e].status
            /\ IF reading /\ d = Len(docs)
               THEN IsPrefix(docs[d].graph, full[e].graph)
               ELSE docs[d].graph = full[e].graph

\* The same for the result files, which are read whole.
SameResultFiles(docs, full) ==
    \A d \in 1..Len(docs) : \A e \in 1..Len(full) :
        full[e].path = docs[d].path => docs[d] = full[e]

\* The files are unchanged: what a step of the second run reads from a
\* file is what the first run read from it, and the results directory
\* holds what it held.
Replays ==
    runNo = 2 =>
        /\ SameFiles(reqDocs', first.reqDocs, pc' = "requirementItems")
        /\ SameListedFiles(mapDocs', first.mapDocs, pc' = "testMappingItems")
        /\ SameResultFiles(resDocs', first.resDocs)
        /\ resultsTree' \in {NoTree} \cup Relistings(first.resultsTree)

\* The script is started again with the same arguments on the same files:
\* a new process, whose variables have the values the script gives them at
\* its start (the script writes no file and keeps nothing between runs).
\* The pattern matches the same files; glob.sync may return them in
\* another order.
Rerun ==
    /\ pc = "exit" /\ runNo = 1
    /\ runNo' = 2
    /\ first' = RunRecord(reqDocs, mapDocs, resultsTree, resDocs, Outcome)
    /\ globResult' \in Orders(globResult)
    /\ reqDocs' = <<>> /\ mapDocs' = <<>>
    /\ resultsTree' = NoTree /\ resDocs' = <<>> /\ testFiles' = <<>>
    /\ mode' = null /\ requirementsFiles' = <<>> /\ testMappingFiles' = <<>>
    /\ testResultsDir' = null
    /\ pc' = "args" /\ fileIdx' = 0 /\ componentName' = undefined
    /\ allRequirements' = <<>> /\ componentRequirements' = <<>>
    /\ testMappings' = <<>>
    /\ hierarchyErrors' = 0 /\ prefixErrors' = 0 /\ testMapErrors' = 0
    /\ formatErrors' = 0 /\ totalErrors' = 0
    /\ errors' = 0 /\ warnings' = 0 /\ correct' = 0
    /\ summary' = NoSummary /\ log' = <<>> /\ exitCode' = Running
    /\ UNCHANGED <<args, corpus, pipelineVars, matrixVars, shellVars>>

RerunNext ==
    \/ ParseArgs /\ Replays
    \/ OpenRequirementsFile /\ Replays
    \/ RequirementItem /\ Replays
    \/ EndOfRequirementsGraph /\ Replays
    \/ OpenTestMappingFile /\ Replays
    \/ TestMappingItem /\ Replays
    \/ EndOfTestMappingGraph /\ Replays
    \/ Validation1 /\ Replays
    \/ Validation2 /\ Replays
    \/ Validation3 /\ Replays
    \/ Validation4 /\ Replays
    \/ FinalSummary /\ Replays
    \/ FindTestResultFiles /\ Replays
    \/ ResultFile /\ Replays
    \/ ResultsSummary /\ Replays
    \/ Rerun

RerunSpec == RerunInit /\ [][RerunNext]_vars

(***************************************************************************)
(* The orchestrator workflow, step by step, and GitHub around it.          *)
(***************************************************************************)
\* Everything the validation script owns: no step of the pipeline below
\* touches it.
scriptVars == <<inputVars, argVars, pc, fileIdx, componentName, loadVars,
                countVars, resultVars, rerunVars, summary, log, exitCode>>

\* Job `j` ends.  With success the jobs that needed it start; with a
\* failure the jobs still waiting are skipped.
FinishJob(j, result) ==
    LET ended == [x \in JobSet |-> IF x = j THEN result ELSE job[x]]
        started == {x \in JobSet : /\ ended[x] = "waiting"
                                   /\ \A n \in Needs(x) : ended[n] = "success"}
    IN /\ job' = [x \in JobSet |->
                    IF x \in started THEN "running"
                    ELSE IF ended[x] = "waiting" /\ result # "success"
                    THEN "skipped"
                    ELSE ended[x]]
       /\ at' = IF started = {} THEN "end"
                ELSE FirstStep(CHOOSE x \in started : TRUE)

\* The steps that fetch the component requirements and test mappings.
Fetch ==
    /\ at = "fetch"
    /\ \E code \in {0, 1} :
         IF code = 0 THEN at' = "validate-format" /\ UNCHANGED job
         ELSE FinishJob("early-validation", "failure")
    /\ UNCHANGED <<scriptVars, matrixVars, shellVars, polled, STATUS, CONCLUSION, repoIdx, validatorExit, triggered, runId, done,
                   attempt, github, others>>

\* `jq empty` on the four requirements files.
ValidateFormat ==
    /\ at = "validate-format"
    /\ \E code \in {0, 1} :
         IF code = 0 THEN at' = "validate-requirements" /\ UNCHANGED job
         ELSE FinishJob("early-validation", "failure")
    /\ UNCHANGED <<scriptVars, matrixVars, shellVars, polled, STATUS, CONCLUSION, repoIdx, validatorExit, triggered, runId, done,
                   attempt, github, others>>

\* node scripts/validate-requirements.js --early ... : the last step of the
\* job, which succeeds when the script exits 0.
ValidateRequirements ==
    /\ at = "validate-requirements"
    /\ \E code \in {0, 1} :
         /\ validatorExit' = code
         /\ FinishJob("early-validation",
                      IF code = 0 THEN "success" ELSE "failure")
    /\ UNCHANGED <<scriptVars, matrixVars, shellVars, polled, STATUS, CONCLUSION, repoIdx, triggered, runId, done, attempt,
                   github, others>>

\* gh workflow run ci.yml --repo <component>, one component after another.
\* The shell runs with -e: a dispatch that is refused ends the step.
TriggerWorkflow ==
    /\ at = "trigger"
    /\ \E accepted \in BOOLEAN :
         IF accepted
         THEN /\ triggered' = triggered \cup {Repos[repoIdx]}
              /\ IF repoIdx < Len(Repos)
                 THEN repoIdx' = repoIdx + 1 /\ at' = at
                 ELSE repoIdx' = 1 /\ at' = "list"
              /\ UNCHANGED job
         ELSE /\ FinishJob("trigger-component-workflows", "failure")
              /\ UNCHANGED <<triggered, repoIdx>>
    /\ UNCHANGED <<scriptVars, matrixVars, shellVars, polled, STATUS, CONCLUSION, validatorExit, runId, done, attempt, github,
                   others>>

\* gh run list --workflow=w --limit=1 --json databaseId --jq '.[0].databaseId':
\* the id of the run created last, nothing (0) when there is no run.
LatestRun(w) == Len(github[w])

\* The status and the conclusion `gh run view id` prints; nothing when
\* there is no such run.
RunStatus(w, id) ==
    IF id \in 1..Len(github[w]) THEN github[w][id].status ELSE ""
RunConclusion(w, id) ==
    IF id \in 1..Len(github[w]) THEN github[w][id].conclusion ELSE ""

\* After `sleep 10`: IOS_RUN_ID, ANDROID_RUN_ID, IPFS_RUN_ID in turn.  The
\* last one enters the poll loop with ATTEMPT = 1.
\* The shell still runs with -e (set +e comes with the poll loop): a
\* `gh run list` that fails ends the step.
GetRunId ==
    /\ at = "list"
    /\ \E listed \in BOOLEAN :
         IF listed
         THEN /\ runId' = (Repos[repoIdx] :> LatestRun(Repos[repoIdx])) @@ runId
              /\ IF repoIdx < Len(Repos)
                 THEN repoIdx' = repoIdx + 1 /\ UNCHANGED <<at, attempt>>
                 ELSE repoIdx' = 1 /\ at' = "check" /\ attempt' = 1
              /\ UNCHANGED job
         ELSE /\ FinishJob("trigger-component-workflows", "failure")
              /\ UNCHANGED <<runId, repoIdx, attempt>>
    /\ UNCHANGED <<scriptVars, matrixVars, shellVars, polled, STATUS, CONCLUSION, validatorExit, triggered, done, github,
                   others>>

\* X=$(gh run view ... --jq '.x'): what gh prints when it answers, nothing
\* when it exits with an error (network, API) although the run exists.
RunView(value, answered) == IF answered THEN value ELSE ""

\* A poll that takes any completed run for a success.
check_workflow_statusAnyCompleted(status, conclusion) ==
    IF status = "completed" THEN "SUCCESS" ELSE "RUNNING"

\* A poll that never reports a failure.
check_workflow_statusNeverFails(status, conclusion) ==
    IF status = "completed" /\ conclusion = "success"
    THEN "SUCCESS"
    ELSE "RUNNING"

\* The word the function prints last, from what its two views printed.
check_workflow_status(status, conclusion) ==
    IF status = "completed"
    THEN IF conclusion # "success" THEN "FAILED" ELSE "SUCCESS"
    ELSE "RUNNING"

AllDone(d) == \A w \in RepoSet : d[w]

\* One check of the poll loop.  After the third, the loop breaks when all
\* three are done, ends when ATTEMPT has reached MAX_ATTEMPTS, and
\* otherwise sleeps 30 seconds and starts the next attempt.
\* The loop runs after `set +e`: a view that fails leaves its variable
\* empty and the function goes on.  The conclusion is viewed only when the
\* status printed is "completed".
CheckWorkflow ==
    /\ at = "check"
    /\ \E statusAnswered \in BOOLEAN, conclusionAnswered \in BOOLEAN :
       LET w == Repos[repoIdx]
           status == RunView(RunStatus(w, runId[w]), statusAnswered)
           conclusion == RunView(RunConclusion(w, runId[w]), conclusionAnswered)
           result == IF done[w] THEN "DONE"
                     ELSE check_workflow_status(status, conclusion)
           nowDone == [done EXCEPT ![w] = done[w] \/ result = "SUCCESS"]
       IN /\ STATUS' = IF done[w] THEN STATUS ELSE status
          /\ CONCLUSION' = IF ~done[w] /\ status = "completed"
                           THEN conclusion ELSE CONCLUSION
          /\ IF result = "FAILED"
             THEN /\ FinishJob("trigger-component-workflows", "failure")
                  /\ UNCHANGED <<done, repoIdx, attempt>>
             ELSE /\ done' = nowDone
                  /\ UNCHANGED job
                  /\ IF repoIdx < Len(Repos)
                     THEN repoIdx' = repoIdx + 1 /\ UNCHANGED <<at, attempt>>
                     ELSE /\ repoIdx' = 1
                          /\ IF AllDone(nowDone) \/ attempt >= MAX_ATTEMPTS
                             THEN at' = "after-loop" /\ UNCHANGED attempt
                             ELSE at' = "check" /\ attempt' = attempt + 1
    /\ polled' = IF done[Repos[repoIdx]] THEN null ELSE Repos[repoIdx]
    /\ UNCHANGED <<scriptVars, matrixVars, shellVars, validatorExit, triggered, runId,
                   github, others>>

\* After the loop: exit 1 when a workflow did not complete in time.
AfterLoop ==
    /\ at = "after-loop"
    /\ FinishJob("trigger-component-workflows",
                 IF AllDone(done) THEN "success" ELSE "failure")
    /\ UNCHANGED <<scriptVars, matrixVars, shellVars, polled, STATUS, CONCLUSION, repoIdx, validatorExit, triggered, runId, done,
                   attempt, github, others>>

\* gh workflow run compliance-matrix.yml
TriggerComplianceMatrix ==
    /\ at = "trigger-compliance-matrix"
    /\ \E accepted \in BOOLEAN :
         IF accepted
         THEN /\ triggered' = triggered \cup {ComplianceMatrix}
              /\ at' = "list-compliance-matrix"
              /\ UNCHANGED job
         ELSE /\ FinishJob("trigger-system-workflows", "failure")
              /\ UNCHANGED triggered
    /\ UNCHANGED <<scriptVars, matrixVars, shellVars, polled, STATUS, CONCLUSION, repoIdx, validatorExit, runId, done, attempt,
                   github, others>>

\* After `sleep 5`: RUN_ID.
GetComplianceMatrixRunId ==
    /\ at = "list-compliance-matrix"
    /\ \E listed \in BOOLEAN :
         IF listed
         THEN /\ runId' = (ComplianceMatrix :> LatestRun(ComplianceMatrix)) @@ runId
              /\ at' = "poll-compliance-matrix"
              /\ UNCHANGED job
         ELSE /\ FinishJob("trigger-system-workflows", "failure")
              /\ UNCHANGED runId
    /\ UNCHANGED <<scriptVars, matrixVars, shellVars, polled, STATUS, CONCLUSION, repoIdx, validatorExit, triggered, done,
                   attempt, github, others>>

\* The `while true` loop.  The shell runs with -e here, so a `gh run view`
\* that fails, for a run that is missing or for one that exists, ends the
\* step.
ViewComplianceMatrix(statusAnswered, conclusionAnswered) ==
    /\ at = "poll-compliance-matrix"
    /\ LET id == runId[ComplianceMatrix]
           status == RunView(RunStatus(ComplianceMatrix, id), statusAnswered)
           conclusion == RunView(RunConclusion(ComplianceMatrix, id),
                                 conclusionAnswered)
       IN /\ STATUS' = status
          /\ CONCLUSION' = IF status = "completed" THEN conclusion ELSE CONCLUSION
          /\ IF status = ""
             THEN FinishJob("trigger-system-workflows", "failure")
             ELSE IF status = "completed"
             THEN IF ~conclusionAnswered \/ conclusion # "success"
                  THEN FinishJob("trigger-system-workflows", "failure")
                  ELSE at' = "log-completion" /\ UNCHANGED job
             ELSE UNCHANGED <<at, job>>
    /\ UNCHANGED <<scriptVars, matrixVars, shellVars, polled, repoIdx, validatorExit, triggered, runId, done,
                   attempt, github, others>>

PollComplianceMatrix ==
    \E statusAnswered \in BOOLEAN, conclusionAnswered \in BOOLEAN :
        ViewComplianceMatrix(statusAnswered, conclusionAnswered)

\* The step "Log CI/CD Pipeline Completion".
LogCompletion ==
    /\ at = "log-completion"
    /\ FinishJob("trigger-system-workflows", "success")
    /\ UNCHANGED <<scriptVars, matrixVars, shellVars, polled, STATUS, CONCLUSION, repoIdx, validatorExit, triggered, runId, done,
                   attempt, github, others>>

\* GitHub, while the orchestrator runs.  The model follows what the
\* orchestrator can come to read.  The runs of a workflow change while the
\* job that triggers and polled that workflow runs: what happens to them
\* before the job starts is a state of the list the job can also meet at
\* its first step.  Once the job has read the run id, no later run is ever
\* listed and only the run of that id is viewed.
Watched(w) ==
    IF w \in RepoSet THEN job["trigger-component-workflows"] = "running"
    ELSE job["trigger-system-workflows"] = "running"
Listed(w) == w \in DOMAIN runId
Viewed(w, i) ==
    /\ Watched(w)
    /\ Listed(w) => runId[w] = i
    /\ w \in RepoSet => ~done[w]

HasRunOf(w, origin) == \E i \in 1..Len(github[w]) : github[w][i].origin = origin

\* The run of a dispatch the orchestrator made appears in the list.
Register(w) ==
    /\ Watched(w) /\ ~Listed(w)
    /\ w \in triggered
    /\ ~HasRunOf(w, "orchestrator")
    /\ github' = [github EXCEPT ![w] = Append(@, NewRun("orchestrator", 0))]
    /\ UNCHANGED <<scriptVars, matrixVars, shellVars, polled, STATUS, CONCLUSION, job, at, repoIdx, validatorExit, triggered,
                   runId, done, attempt, others>>

\* Another trigger of the workflow creates a run: a push or a pull request
\* for ci.yml, a manual dispatch, the workflow_run of a component CI run
\* for the compliance matrix.
OtherRun(w) ==
    /\ Watched(w) /\ ~Listed(w)
    /\ others < MaxOtherRuns
    /\ others' = others + 1
    /\ github' = [github EXCEPT ![w] = Append(@, NewRun("other", 0))]
    /\ UNCHANGED <<scriptVars, matrixVars, shellVars, polled, STATUS, CONCLUSION, job, at, repoIdx, validatorExit, triggered,
                   runId, done, attempt>>

\* A run completes.  The completion of a Compliance Matrix run is the
\* workflow_run event that creates a Test Results Validation run.
Complete(w, i, conclusion) ==
    /\ Viewed(w, i)
    /\ github[w][i].status # "completed"
    /\ LET ended == [github EXCEPT ![w][i].status = "completed",
                                   ![w][i].conclusion = conclusion]
       IN github' =
            IF w = ComplianceMatrix
            THEN [ended EXCEPT ![TestResultsValidation] =
                                  Append(@, NewRun("workflow_run", i))]
            ELSE ended
    /\ UNCHANGED <<scriptVars, matrixVars, shellVars, polled, STATUS, CONCLUSION, job, at, repoIdx, validatorExit, triggered,
                   runId, done, attempt, others>>

\* The command line of the early validation step; the pipeline steps see
\* of that process its exit code only, drawn in ValidateRequirements.
PipelineRun ==
    Run(<<"--early", SystemReqs, IosReqs, "--test-mappings", Pattern>>,
        <<IosMappings>>, "results")

PipelineInit == InitOf({PipelineRun})

PipelineNext ==
    \/ Fetch
    \/ ValidateFormat
    \/ ValidateRequirements
    \/ TriggerWorkflow
    \/ GetRunId
    \/ CheckWorkflow
    \/ AfterLoop
    \/ TriggerComplianceMatrix
    \/ GetComplianceMatrixRunId
    \/ PollComplianceMatrix
    \/ LogCompletion
    \/ \E w \in Dispatched : Register(w)
    \/ \E w \in Dispatched : OtherRun(w)
    \/ \E w \in Workflows : \E i \in 1..Len(github[w]) :
         \E conclusion \in Conclusions : Complete(w, i, conclusion)

PipelineSpec == PipelineInit /\ [][PipelineNext]_vars

(***************************************************************************)
(* aggregate_jsonld_compliance.sh, step by step.                           *)
(***************************************************************************)
notMatrixVars == <<scriptVars, pipelineVars, shellVars>>

\* if [ ! -f "$SYSTEM_REQ" ]; then ... exit 1
CheckSystemRequirements ==
    /\ step = "check"
    /\ step' = IF systemFile.status = "missing" THEN "failed" ELSE "system"
    /\ UNCHANGED <<notMatrixVars, resultFiles, testCases, statistics, systemFile, componentFiles, fileNo,
                   ALL_REQUIREMENTS, subshell, matrix>>

\* The system requirements go through jq into ALL_REQUIREMENTS; the script
\* runs with set -e, so a file jq cannot parse, or one in which it cannot
\* iterate ."@graph"[] ("Cannot iterate over null"), ends it.
ExtractSystemRequirements ==
    /\ step = "system"
    /\ IF systemFile.status \in {"badjson", "nograph"}
       THEN step' = "failed" /\ UNCHANGED ALL_REQUIREMENTS
       ELSE /\ ALL_REQUIREMENTS' = SystemEntries(systemFile.graph)
            /\ step' = "components"
    /\ UNCHANGED <<notMatrixVars, resultFiles, testCases, statistics, systemFile, componentFiles, fileNo, subshell,
                   matrix>>

\* find ... | while read -r req_file; do : bash runs the while loop, the
\* last command of a pipeline, in a subshell, which starts with a copy of
\* the variables of the script.
StartPipeline ==
    /\ step = "components"
    /\ subshell' = ALL_REQUIREMENTS
    /\ fileNo' = 1
    /\ step' = "while"
    /\ UNCHANGED <<notMatrixVars, resultFiles, testCases, statistics, systemFile, componentFiles,
                   ALL_REQUIREMENTS, matrix>>

\* One turn of the while loop, in the subshell.  A file `jq empty` rejects
\* is skipped.  In a file it accepts the filter runs under set -e: when jq
\* cannot iterate ."@graph"[] the subshell ends, and the status of the
\* pipeline ends the script.
ReadComponentFile ==
    /\ step = "while"
    /\ fileNo <= Len(componentFiles)
    /\ LET f == componentFiles[fileNo]
       IN IF f.status = "nograph"
          THEN /\ step' = "failed"
               /\ subshell' = <<>>
               /\ UNCHANGED fileNo
          ELSE /\ subshell' =
                    IF f.status = "ok"
                    THEN subshell \o ComponentEntries(f.graph, ComponentOfPath(f.path))
                    ELSE subshell
               /\ fileNo' = fileNo + 1
               /\ UNCHANGED step
    /\ UNCHANGED <<notMatrixVars, resultFiles, testCases, statistics, systemFile, componentFiles,
                   ALL_REQUIREMENTS, matrix>>

\* `done`: the subshell ends and its variables end with it.
EndPipeline ==
    /\ step = "while"
    /\ fileNo > Len(componentFiles)
    /\ subshell' = <<>>
    /\ step' = "matrix"
    /\ UNCHANGED <<notMatrixVars, resultFiles, testCases, statistics, systemFile, componentFiles, fileNo,
                   ALL_REQUIREMENTS, matrix>>

\* Step 2: for req in "${ALL_REQUIREMENTS[@]}" ... .requirements += [$req]
InitializeMatrix ==
    /\ step = "matrix"
    /\ matrix' = ALL_REQUIREMENTS
    /\ step' = "results"
    /\ UNCHANGED <<notMatrixVars, resultFiles, testCases, statistics, systemFile, componentFiles, fileNo,
                   ALL_REQUIREMENTS, subshell>>

\* The test cases jq extracts from one result file, tagged with the
\* component of the file.
RECURSIVE TaggedCases(_, _)
TaggedCases(cases, component) ==
    IF cases = <<>> THEN <<>>
    ELSE << [atId |-> JsonValue(Head(cases).atId), component |-> component,
             verifies |-> JsonValue(Head(cases).verifies),
             result |-> JsonValue(Head(cases).result)] >>
         \o TaggedCases(Tail(cases), component)

\* Step 3, over the files `find` prints: a file `jq empty` rejects is
\* skipped.  The loop writes the output file, which stays written.
RECURSIVE AllTaggedCases(_)
AllTaggedCases(files) ==
    IF files = <<>> THEN <<>>
    ELSE (IF Head(files).status = "ok"
          THEN TaggedCases(Head(files).cases, Head(files).component)
          ELSE <<>>)
         \o AllTaggedCases(Tail(files))

\* The files the loop reads before the first one in which jq cannot
\* iterate the test cases: there the subshell ends under set -e.
RECURSIVE ReadableResults(_)
ReadableResults(files) ==
    IF files = <<>> \/ Head(files).status = "nosuites" THEN <<>>
    ELSE << Head(files) >> \o ReadableResults(Tail(files))

\* The status of the pipeline is the status of the subshell: when it is
\* not 0 the script ends there, with the test cases added so far in the
\* output file and no statistics.
ProcessTestResults ==
    /\ step = "results"
    /\ testCases' = testCases \o AllTaggedCases(ReadableResults(resultFiles))
    /\ step' = IF ReadableResults(resultFiles) = resultFiles
               THEN "coverage" ELSE "failed"
    /\ UNCHANGED <<notMatrixVars, resultFiles, statistics, systemFile,
                   componentFiles, fileNo, ALL_REQUIREMENTS, subshell, matrix>>

\* The lines of a text: the runs of characters between its newlines.
RECURSIVE SplitLines(_)
SplitLines(cs) ==
    LET Breaks == { i \in 1..Len(cs) : cs[i] = "\n" } IN
    IF Breaks = {} THEN << cs >>
    ELSE LET i == CHOOSE b \in Breaks : \A c \in Breaks : b <= c
         IN  << SubSeq(cs, 1, i - 1) >> \o SplitLines(SubSeq(cs, i + 1, Len(cs)))

\* jq -r '.["@graph"][0].testCases[].verifies' | sort | uniq : the lines of
\* tested_requirements.txt, each a sequence of characters.  jq -r prints a
\* string as it is and null as "null": a verifies that holds a newline
\* gives two lines, an empty verifies an empty line.
TestedRequirementLines(cases) ==
    LET RawOutput(verifies) ==
            IF verifies = null THEN <<"n", "u", "l", "l">> ELSE Chars[verifies]
        LinesOf(i) == SplitLines(RawOutput(cases[i].verifies))
    IN  UNION { { LinesOf(i)[k] : k \in 1..Len(LinesOf(i)) } :
                i \in 1..Len(cases) }

\* --slurpfile tested_reqs <(jq -Rs 'split("\n") | map(select(length > 0))'):
\* jq binds an array of the JSON values of the file, here one value, the
\* array of the lines that are not empty.
tested_reqs(cases) ==
    << { line \in TestedRequirementLines(cases) : Len(line) > 0 } >>

\* reduce $tested_reqs[] as $req (false;
\*     if . then . else (.["@id"] == $req) end)
\* Inside the update `.` is the state of the reduce: false at first, and
\* .["@id"] of a boolean is a jq error.  A state that is true is kept.
ReduceUpdate(state) == IF state = "true" THEN "true" ELSE "error"
RECURSIVE Reduce(_, _)
Reduce(state, source) ==
    IF source = <<>> \/ state = "error" THEN state
    ELSE Reduce(ReduceUpdate(state), Tail(source))

\* The `tested` value jq computes for one mapped value.
TestedOf(source) == Reduce("false", source)

\* Step 4:  jq '.requirements = .requirements | map(. + {"tested": ...})'
\*              out > tmp && mv tmp out
\* `|` binds weaker than `=`, so map runs over the values of the document,
\* of which there are always two, "@context" and "@graph".  When jq fails
\* mv does not run: the output file stays as it was, and so does the
\* script, since a command before && does not trigger set -e.  Had jq
\* succeeded the file would hold the mapped array, with no requirements.
MappedValues == <<"@context", "@graph">>

CalculateCoverage ==
    /\ step = "coverage"
    /\ LET source == tested_reqs(testCases)
           failed == \E i \in 1..Len(MappedValues) :
                        TestedOf(source) = "error"
       IN matrix' = IF failed THEN matrix ELSE <<>>
    /\ step' = "statistics"
    /\ UNCHANGED <<notMatrixVars, resultFiles, testCases, statistics,
                   systemFile, componentFiles, fileNo, ALL_REQUIREMENTS,
                   subshell>>

\* The lines jq -r prints for an @id: a string as it is, so one line more
\* than it holds newlines, and one line ("null") for null.
LineCount(id) ==
    IF id = null THEN 1
    ELSE 1 + Cardinality({ i \in 1..Len(Chars[id]) : Chars[id][i] = "\n" })
\* jq -r '... | select(...) | .["@id"]' | wc -l
RECURSIVE wc(_)
wc(selected) ==
    IF selected = <<>> THEN 0
    ELSE LineCount(Head(selected).atId) + wc(Tail(selected))
IsTested(requirement) == requirement.tested = "true"
IsUntested(requirement) == requirement.tested = "false"
IsPassed(testCase) == testCase.result \in {"Pass", "Passed"}
IsFailed(testCase) == testCase.result \in {"Fail", "Failed"}

\* Step 5.
GenerateStatistics ==
    /\ step = "statistics"
    /\ statistics' =
         [totalRequirements |-> Len(matrix),
          testedRequirements |-> wc(SelectSeq(matrix, IsTested)),
          untestedRequirements |-> wc(SelectSeq(matrix, IsUntested)),
          totalTests |-> Len(testCases),
          passingTests |-> wc(SelectSeq(testCases, IsPassed)),
          failingTests |-> wc(SelectSeq(testCases, IsFailed))]
    /\ step' = "done"
    /\ UNCHANGED <<notMatrixVars, resultFiles, testCases, systemFile,
                   componentFiles, fileNo, ALL_REQUIREMENTS, subshell, matrix>>

(***************************************************************************)
(* The dashboard: renderDashboard and renderRequirementsMatrix.            *)
(***************************************************************************)
\* requirementsData['@graph'].filter(item => item.type === 'Requirement')
DashboardRequirements(graph) ==
    SelectSeq(graph, LAMBDA item : item.type = "Requirement")

\* The key of a property: String(x), so 'null' for null and 'undefined'
\* for a property the element does not have.
String(x) ==
    IF x = null THEN "null" ELSE IF x = undefined THEN "undefined" ELSE x

\* The properties the accumulator {} inherits from Object.prototype:
\* acc[key] of such a key is a function or an object, never an array.
Inherited ==
    {"constructor", "toString", "toLocaleString", "valueOf", "hasOwnProperty",
     "isPrototypeOf", "propertyIsEnumerable", "__proto__", "__defineGetter__",
     "__defineSetter__", "__lookupGetter__", "__lookupSetter__"}

\* The reduce throws TypeError (acc[test.verifies].push is not a function)
\* when a test case verifies an inherited key: no row is built.
GroupingThrows(cases) ==
    \E i \in 1..Len(cases) : String(cases[i].verifies) \in Inherited

\* testsByRequirement[key]: the test cases of the matrix grouped under
\* String(test.verifies), in the order of the matrix.
testsByRequirement(cases, key) ==
    SelectSeq(cases, LAMBDA test : String(test.verifies) = String(key))

\* row.className of the row of one requirement, "TypeError" when building
\* the row throws: the lookup of an inherited key gives no array, and
\* reqTests.every is not a function.
RowClass(req, cases) ==
    LET reqTests == testsByRequirement(cases, req.id)
        isVerified == Len(reqTests) > 0
        allPassing == \A i \in 1..Len(reqTests) : reqTests[i].result = "Pass"
    IN IF GroupingThrows(cases) \/ String(req.id) \in Inherited
       THEN "TypeError"
       ELSE IF isVerified
       THEN (IF allPassing THEN "passing" ELSE "failing")
       ELSE "no-coverage"

\* The classes of the rows renderRequirementsMatrix appends: all of them,
\* or those before the row that throws.
RECURSIVE renderRequirementsMatrix(_, _)
renderRequirementsMatrix(requirements, cases) ==
    IF requirements = <<>> \/ RowClass(Head(requirements), cases) = "TypeError"
    THEN <<>>
    ELSE << RowClass(Head(requirements), cases) >>
         \o renderRequirementsMatrix(Tail(requirements), cases)

MatrixInit == StartOf({PipelineRun}, MatrixInputs)

MatrixNext ==
    \/ CheckSystemRequirements
    \/ ExtractSystemRequirements
    \/ StartPipeline
    \/ ReadComponentFile
    \/ EndPipeline
    \/ InitializeMatrix
    \/ ProcessTestResults
    \/ CalculateCoverage
    \/ GenerateStatistics

MatrixSpec == MatrixInit /\ [][MatrixNext]_vars

(***************************************************************************)
(* serve-dashboard.sh.                                                     *)
(***************************************************************************)
\* The sources of download_compliance_matrix, in the order of the function.
Sources == <<"aggregation", "artifact", "reports", "requirements">>

\* One source tried, and whether it gave the dashboard its data.
Tried(source, ok) == [source |-> source, ok |-> ok]

\* The function giving up after a failed artifact download.
AfterFailureGivesUp(source) ==
    CASE source = "aggregation" -> "artifact"
      [] OTHER                  -> "start-refresh"

\* Where the function goes on when the source has failed.
AfterFailure(source) ==
    CASE source = "aggregation" -> "artifact"
      [] source = "artifact"    -> "reports"
      [] source = "reports"     -> "requirements"
      [] OTHER                  -> "start-refresh"

\* The end of one source: `return 0` when it succeeded, the next source
\* when it failed, `return 1` after the last.
EndOfSource(source, ok) ==
    /\ tried' = Append(tried, Tried(source, ok))
    /\ IF ok
       THEN serve' = "start-refresh" /\ ret' = 0
       ELSE /\ serve' = AfterFailure(source)
            /\ ret' = IF AfterFailure(source) = "start-refresh" THEN 1
                      ELSE ret

\* if ! command -v gh ... return 1
CheckGitHubCli ==
    /\ serve = "check-gh"
    /\ \E installed \in BOOLEAN :
         /\ cli' = IF installed THEN "found" ELSE "missing"
         /\ IF installed
            THEN serve' = "download-ios" /\ UNCHANGED ret
            ELSE serve' = "start-refresh" /\ ret' = 1
    /\ UNCHANGED <<scriptVars, pipelineVars, matrixVars, fetchVars, results, tried,
                   refresh, download, pidFile, python, exitStatus>>

\* The step after the download of the results of one component.
AfterDownload(component) ==
    CASE component = "ios"     -> "download-android"
      [] component = "android" -> "download-ipfs"
      [] OTHER                 -> "aggregation"

\* gh run list, gh run download and the search for test-results.jsonld of
\* one component: afterwards the file is there or it is not.
DownloadTestResults(component) ==
    /\ serve = "download-" \o component
    /\ \E found \in BOOLEAN :
         results' = IF found THEN results \cup {component} ELSE results
    /\ serve' = AfterDownload(component)
    /\ UNCHANGED <<scriptVars, pipelineVars, matrixVars, fetchVars, cli, tried, ret,
                   refresh, download, pidFile, python, exitStatus>>

\* TEST_RESULTS_COUNT and the run of aggregate_jsonld_compliance.sh.
GenerateFreshMatrix ==
    /\ serve = "aggregation"
    /\ \E status \in {0, 1} :
         EndOfSource("aggregation", Cardinality(results) > 0 /\ status = 0)
    /\ UNCHANGED <<scriptVars, pipelineVars, matrixVars, fetchVars, cli, results,
                   refresh, download, pidFile, python, exitStatus>>

\* RUN_ID of compliance-matrix.yml and gh run download of its artifact.
DownloadArtifact ==
    /\ serve = "artifact"
    /\ \E RUN_ID \in {"", "1"}, status \in {0, 1} :
         EndOfSource("artifact", RUN_ID # "" /\ status = 0)
    /\ UNCHANGED <<scriptVars, pipelineVars, matrixVars, fetchVars, cli, results,
                   refresh, download, pidFile, python, exitStatus>>

\* if [[ -f "compliance/reports/compliance_matrix.jsonld" ]]
UseExistingMatrix ==
    /\ serve = "reports"
    /\ \E exists \in BOOLEAN : EndOfSource("reports", exists)
    /\ UNCHANGED <<scriptVars, pipelineVars, matrixVars, fetchVars, cli, results,
                   refresh, download, pidFile, python, exitStatus>>

\* if [[ -f "requirements/requirements.jsonld" ]] ... else return 1
UseRequirements ==
    /\ serve = "requirements"
    /\ \E exists \in BOOLEAN : EndOfSource("requirements", exists)
    /\ UNCHANGED <<scriptVars, pipelineVars, matrixVars, fetchVars, cli, results,
                   refresh, download, pidFile, python, exitStatus>>

\* ( while true; do sleep 60; download_compliance_matrix; done ) &
\* echo $! > "$PID_FILE"
StartAutoRefresh ==
    /\ serve = "start-refresh"
    /\ refresh' = "running"
    /\ pidFile' = TRUE
    /\ serve' = "start-server"
    /\ UNCHANGED <<scriptVars, pipelineVars, matrixVars, fetchVars, cli, results, tried,
                   ret, download, python, exitStatus>>

\* The background loop calls download_compliance_matrix again; what it
\* returns goes nowhere.  With gh installed the function runs
\* `gh run download` for a component: gh is a child of the subshell.
AutoRefresh ==
    /\ refresh = "running"
    /\ download = null
    /\ cli = "found"
    /\ serve \in {"start-server", "serving", "cleanup"}
    /\ \E component \in FetchComponents : download' = component
    /\ UNCHANGED <<scriptVars, pipelineVars, matrixVars, fetchVars, serve, cli, results,
                   tried, ret, refresh, pidFile, python, exitStatus>>

\* The `gh run download` of the auto-refresh loop ends: the file of the
\* component is there or it is not.  cleanup signals the subshell (the PID
\* of the PID file) and the children of the script (pkill -P $$), not the
\* children of the subshell: a gh that was running goes on and writes its
\* file after the script has exited.
RunDownload ==
    /\ download # null
    /\ \E found \in BOOLEAN :
         results' = IF found THEN results \cup {download} ELSE results
    /\ download' = null
    /\ UNCHANGED <<scriptVars, pipelineVars, matrixVars, fetchVars, serve, cli, tried,
                   ret, refresh, pidFile, python, exitStatus>>

\* command -v python3 / python: the server runs, or `exit 1`.  exitStatus
\* holds the status the script is exiting with while the EXIT trap runs.
StartServer ==
    /\ serve = "start-server"
    /\ \E found \in {"python3", "python", "none"} :
         /\ python' = found
         /\ IF found = "none"
            THEN serve' = "cleanup" /\ exitStatus' = 1
            ELSE serve' = "serving" /\ UNCHANGED exitStatus
    /\ UNCHANGED <<scriptVars, pipelineVars, matrixVars, fetchVars, cli, results, tried,
                   ret, refresh, download, pidFile>>

\* The server ends by itself: the script reaches its end with the status
\* of the server, and the EXIT trap runs.
ServerStops ==
    /\ serve = "serving"
    /\ \E status \in {0, 1} : exitStatus' = status
    /\ serve' = "cleanup"
    /\ UNCHANGED <<scriptVars, pipelineVars, matrixVars, fetchVars, cli, results, tried,
                   ret, refresh, download, pidFile, python>>

\* SIGINT or SIGTERM at any point after `trap cleanup SIGINT SIGTERM EXIT`,
\* which is installed before the first download: the trap runs cleanup,
\* whose `exit 0` makes the EXIT trap run cleanup once more.
Interrupt ==
    /\ serve \notin {"cleanup", "exited"}
    /\ exitStatus' = 0
    /\ serve' = "cleanup"
    /\ UNCHANGED <<scriptVars, pipelineVars, matrixVars, fetchVars, cli, results, tried,
                   ret, refresh, download, pidFile, python>>

\* cleanup(), run by the trap: the auto-refresh process, when it was
\* started, is killed (by the PID of the PID file and by pkill -P $$), the
\* PID file removed, and `exit 0` replaces the status the script was
\* exiting with.
cleanup ==
    /\ serve = "cleanup"
    /\ refresh' = IF refresh = "none" THEN "none" ELSE "killed"
    /\ pidFile' = FALSE
    /\ exitStatus' = 0
    /\ serve' = "exited"
    /\ UNCHANGED <<scriptVars, pipelineVars, matrixVars, fetchVars, cli, results, tried,
                   ret, download, python>>

ServeNext ==
    \/ CheckGitHubCli
    \/ \E component \in FetchComponents : DownloadTestResults(component)
    \/ GenerateFreshMatrix
    \/ DownloadArtifact
    \/ UseExistingMatrix
    \/ UseRequirements
    \/ StartAutoRefresh
    \/ AutoRefresh
    \/ RunDownload
    \/ StartServer
    \/ ServerStops
    \/ Interrupt
    \/ cleanup

ServeSpec == PipelineInit /\ [][ServeNext]_vars

(***************************************************************************)
(* fetch-component-requirements.sh, fetch-test-mappings.sh and the         *)
(* workflow step that runs the first.                                      *)
(***************************************************************************)
FetchRequirements == "fetch-component-requirements.sh"
FetchMappings == "fetch-test-mappings.sh"

\* ${repositories[$i]}, by component.
FetchOrder == <<"ios", "android", "ipfs">>

\* Who runs which script: either from a shell, the first from the step.
FetchRuns ==
    { [script |-> FetchRequirements, caller |-> "shell"],
      [script |-> FetchRequirements, caller |-> "workflow"],
      [script |-> FetchMappings, caller |-> "shell"] }

\* What `gh api ... --jq '.content' | base64 -d > file` can do, as the status
\* of gh, the status of base64 and what is at the path afterwards: gh
\* delivers the content and base64 decodes it; gh fails and prints nothing;
\* gh fails and prints text base64 decodes; gh fails and prints text base64
\* rejects, after some output or before any; the redirection fails, so
\* base64 does not run, the last command has status 1 and no file is
\* created; the redirection succeeds on a path that is no regular file
\* (a device, a FIFO), or the file is gone again before the test.
FetchOutcome(gh, base64, content) ==
    [gh |-> gh, base64 |-> base64, content |-> content]
FetchOutcomes ==
    { FetchOutcome(0, 0, "fetched"), FetchOutcome(1, 0, "empty"),
      FetchOutcome(1, 0, "junk"), FetchOutcome(1, 1, "junk"),
      FetchOutcome(1, 1, "empty"), FetchOutcome(0, 1, "absent"),
      FetchOutcome(1, 1, "absent"), FetchOutcome(0, 0, "absent"),
      FetchOutcome(1, 0, "absent") }

\* The status of the pipeline: without pipefail, that of its last command.
PipelineStatus(outcome) == outcome.base64

\* [ -f "components/$component/requirements/requirements.jsonld" ]
FileExists(contents, component) == contents[component] # "absent"

\* The script ends with `status`; the step goes on to its own check.
ExitFetch(status) ==
    /\ fetchExit' = status
    /\ fetchAt' = IF fetchRun.caller = "workflow" THEN "step-check"
                  ELSE "exited"

StartFetch ==
    /\ fetchAt = "idle"
    /\ \E run \in FetchRuns : fetchRun' = run
    /\ fetchAt' = "cli"
    /\ UNCHANGED <<scriptVars, pipelineVars, matrixVars, serveVars, fetchIdx,
                   fetchFiles, fetchLog, fetchExit, fetch_success>>

\* if ! command -v gh ... exit 1
CheckFetchCli ==
    /\ fetchAt = "cli"
    /\ \E installed \in BOOLEAN :
         IF installed
         THEN fetchAt' = "auth" /\ UNCHANGED <<fetchLog, fetchExit>>
         ELSE /\ fetchLog' = Append(fetchLog, <<"error", "no-cli">>)
              /\ ExitFetch(1)
    /\ UNCHANGED <<scriptVars, pipelineVars, matrixVars, serveVars, fetchRun,
                   fetchIdx, fetchFiles, fetch_success>>

\* if ! gh auth status ... exit 1
CheckFetchAuth ==
    /\ fetchAt = "auth"
    /\ \E loggedIn \in BOOLEAN :
         IF loggedIn
         THEN /\ fetchAt' = "loop"
              /\ fetchIdx' = 1
              /\ UNCHANGED <<fetchLog, fetchExit>>
         ELSE /\ fetchLog' = Append(fetchLog, <<"error", "not-logged-in">>)
              /\ ExitFetch(1)
              /\ UNCHANGED fetchIdx
    /\ UNCHANGED <<scriptVars, pipelineVars, matrixVars, serveVars, fetchRun,
                   fetchFiles, fetch_success>>

\* One round of the for loop.  Under set -e a pipeline with a status other
\* than 0 ends the script there.  After a pipeline with status 0 the file
\* is tested: when no regular file is there, "Failed to fetch" is printed,
\* and the requirements script exits with 1 while the mappings script goes
\* on.
FetchFile ==
    /\ fetchAt = "loop"
    /\ fetchIdx <= Len(FetchOrder)
    /\ \E outcome \in FetchOutcomes :
         LET component == FetchOrder[fetchIdx]
             written == [fetchFiles EXCEPT ![component] = outcome.content]
             fetching == Append(fetchLog, <<"fetching", component>>)
         IN /\ fetchFiles' = written
            /\ IF PipelineStatus(outcome) # 0
               THEN /\ fetchLog' = fetching
                    /\ ExitFetch(PipelineStatus(outcome))
                    /\ UNCHANGED fetchIdx
               ELSE IF FileExists(written, component)
               THEN /\ fetchLog' = Append(fetching, <<"success", component>>)
                    /\ fetchIdx' = fetchIdx + 1
                    /\ UNCHANGED <<fetchAt, fetchExit>>
               ELSE /\ fetchLog' = Append(fetching, <<"failed", component>>)
                    /\ IF fetchRun.script = FetchRequirements
                       THEN ExitFetch(1) /\ UNCHANGED fetchIdx
                       ELSE /\ fetchIdx' = fetchIdx + 1
                            /\ UNCHANGED <<fetchAt, fetchExit>>
    /\ UNCHANGED <<scriptVars, pipelineVars, matrixVars, serveVars, fetchRun,
                   fetch_success>>

\* echo "All component requirements fetched successfully."
FinishFetch ==
    /\ fetchAt = "loop"
    /\ fetchIdx > Len(FetchOrder)
    /\ fetchLog' = Append(fetchLog, <<"all-fetched">>)
    /\ ExitFetch(0)
    /\ UNCHANGED <<scriptVars, pipelineVars, matrixVars, serveVars, fetchRun,
                   fetchIdx, fetchFiles, fetch_success>>

\* The rest of the step, run by bash -e: a script that failed ends the
\* step; otherwise the three files are looked for.
CheckFetched ==
    /\ fetchAt = "step-check"
    /\ fetch_success' =
         IF fetchExit # 0 THEN fetch_success
         ELSE IF \A c \in FetchComponents : FileExists(fetchFiles, c)
         THEN "true" ELSE "false"
    /\ fetchAt' = "exited"
    /\ UNCHANGED <<scriptVars, pipelineVars, matrixVars, serveVars, fetchRun,
                   fetchIdx, fetchFiles, fetchLog, fetchExit>>

FetchNext ==
    \/ StartFetch
    \/ CheckFetchCli
    \/ CheckFetchAuth
    \/ FetchFile
    \/ FinishFetch
    \/ CheckFetched

FetchSpec == PipelineInit /\ [][FetchNext]_vars

(***************************************************************************)
(* C20: the requirements array of the generated compliance matrix has one  *)
(* entry for every Requirement of the system requirements file whose       *)
(* component is System or unset, and one entry for every Requirement of    *)
(* every components/<name>/requirements/requirements.jsonld found, tagged  *)
(* with <name>.                                                            *)
(***************************************************************************)
RECURSIVE AllComponentEntries(_)
AllComponentEntries(files) ==
    IF files = <<>> THEN <<>>
    ELSE (IF Head(files).status = "ok"
          THEN ComponentEntries(Head(files).graph,
                                     ComponentOfPath(Head(files).path))
          ELSE <<>>)
         \o AllComponentEntries(Tail(files))

C20_MatrixListsAllRequirements ==
    step = "done" =>
        matrix = SystemEntries(systemFile.graph)
                     \o AllComponentEntries(componentFiles)

(***************************************************************************)
(* Properties.                                                             *)
(***************************************************************************)
\* The number of lines of `lines` equal to `line`.
Occurrences(lines, line) ==
    Cardinality({i \in 1..Len(lines) : lines[i] = line})

\* Has the validation named `check` run?
HasRun(check) == Occurrences(log, <<"banner", check>>) > 0

\* C1: in early mode, once loading has succeeded and the run has ended, the
\* reported total is the sum of the four error counts, and the exit code is
\* 0 exactly when that total is 0 (1 when any of the four is non-zero).
C1_TotalAndExitCode ==
    (pc = "exit" /\ mode = "early" /\ HasRun("hierarchy")) =>
        /\ summary.printed
        /\ summary.errors =
               hierarchyErrors + prefixErrors + testMapErrors + formatErrors
        /\ exitCode = 0 <=> summary.errors = 0
        /\ exitCode = 1 <=>
               (hierarchyErrors # 0 \/ prefixErrors # 0 \/
                testMapErrors # 0 \/ formatErrors # 0)

\* A run that ended with errors in all four categories.
C1_Witness ==
    /\ pc = "exit" /\ summary.printed
    /\ hierarchyErrors > 0 /\ prefixErrors > 0
    /\ testMapErrors > 0 /\ formatErrors > 0

\* The parent reference P of a requirement of component C is system- or
\* component-scoped.
ScopedParent(P, C) ==
    \/ startsWith(Chars[P], Chars["System."])
    \/ includes(Chars[P], <<".">> \o Chars[C] \o <<".">>)

\* The registry ids whose scoped parent is no registry key.
MissingParentIds ==
    {id \in MapKeys(allRequirements) :
        LET R == MapGet(allRequirements, id) IN
        /\ Truthy(R.parent)
        /\ ScopedParent(R.parent, R.component)
        /\ R.parent \notin MapKeys(allRequirements)}

\* C2: once the hierarchy check has run, it has reported exactly one error
\* for every registry requirement whose scoped parent is no registry key and
\* none for any other requirement, and the hierarchy error count is the
\* number of requirements with such a missing parent.
C2_HierarchyCheck ==
    HasRun("hierarchy") =>
        /\ hierarchyErrors = Cardinality(MissingParentIds)
        /\ \A id \in MapKeys(allRequirements) :
             Occurrences(log, <<"error", "parent", id,
                                MapGet(allRequirements, id).parent>>)
               = IF id \in MissingParentIds THEN 1 ELSE 0

\* The hierarchy check has passed a requirement whose scoped parent is
\* registered and reported one whose component-scoped parent is missing;
\* a third kind, without parent, may be there too.
C2_Witness ==
    /\ HasRun("hierarchy")
    /\ hierarchyErrors = 1
    /\ \E id \in MapKeys(allRequirements) :
         LET R == MapGet(allRequirements, id) IN
         /\ Truthy(R.parent)
         /\ ScopedParent(R.parent, R.component)
         /\ R.parent \in MapKeys(allRequirements)

(***************************************************************************)
(* The documents as read, seen from outside the script.                    *)
(***************************************************************************)
\* The places <<file, element>> of the requirements documents read so far.
ReqPlaces ==
    UNION { { <<d, i>> : i \in 1..Len(reqDocs[d].graph) } : d \in 1..Len(reqDocs) }

ElementAt(p) == reqDocs[p[1]].graph[p[2]]

PathAt(p) == reqDocs[p[1]].path

\* The identifier a Requirement element carries: its id, else its @id.
CarriedId(e) == IF e.id \notin {undefined, ""} THEN e.id ELSE e.atId

\* The places holding a Requirement that carries an identifier.
IdentifiedPlaces ==
    { p \in ReqPlaces :
        /\ "Requirement" \in {ElementAt(p).type, ElementAt(p).atType}
        /\ CarriedId(ElementAt(p)) \notin {undefined, ""} }

\* The places holding a Requirement that carries none.
UnidentifiedPlaces ==
    { p \in ReqPlaces :
        /\ "Requirement" \in {ElementAt(p).type, ElementAt(p).atType}
        /\ CarriedId(ElementAt(p)) \in {undefined, ""} }

DeclaredIds == { CarriedId(ElementAt(p)) : p \in IdentifiedPlaces }

\* Reading order: files in command-line order, elements in @graph order.
ReadBefore(p, q) == p[1] < q[1] \/ (p[1] = q[1] /\ p[2] < q[2])

\* The last place of a non-empty set of places.
LastOf(S) == CHOOSE p \in S : \A q \in S : q = p \/ ReadBefore(q, p)

\* The last place at which `id` is declared.
LastDeclaration(id) ==
    LastOf({ p \in IdentifiedPlaces : CarriedId(ElementAt(p)) = id })

\* The last place at which `id` is declared in a file of component C.
LastDeclarationIn(C, id) ==
    LastOf({ p \in IdentifiedPlaces :
               /\ CarriedId(ElementAt(p)) = id
               /\ RequirementsComponentOf(PathAt(p)) = C })

\* The components that have declared `id`.
ComponentsOf(id) ==
    { RequirementsComponentOf(PathAt(p)) :
        p \in { q \in IdentifiedPlaces : CarriedId(ElementAt(q)) = id } }

\* The places <<file, element, suite, case>> of the test cases nested in the
\* test-mapping documents read so far.
CasePlaces ==
    UNION { UNION { UNION {
        { <<d, i, s, c>> :
            c \in 1..Len(mapDocs[d].graph[i].testSuites[s].testCases) } :
          s \in 1..Len(mapDocs[d].graph[i].testSuites) } :
        i \in 1..Len(mapDocs[d].graph) } :
      d \in 1..Len(mapDocs) }

VerifiesAt(p) == mapDocs[p[1]].graph[p[2]].testSuites[p[3]].testCases[p[4]].verifies

\* The test cases whose verifies is `v`.
CasesVerifying(v) == { p \in CasePlaces : VerifiesAt(p) = v }

\* The values of verifies in the documents.
VerifiesValues == { VerifiesAt(p) : p \in CasePlaces }

\* The dangling-reference lines VALIDATION 3 printed for verifies = v.
DanglingLines(v) ==
    Cardinality({ i \in 1..Len(log) :
                    /\ Len(log[i]) = 4
                    /\ log[i][1] = "error" /\ log[i][2] = "mapping"
                    /\ log[i][4] = v })

\* C3 as claimed: once the test-mapping check has run, for every test case
\* M of the test-mapping documents either M.verifies is a registry key or
\* the check has reported exactly one dangling reference for M, and the
\* error count is the number of test cases whose verifies is no registry
\* key, duplicates counted separately.
C3_Original ==
    HasRun("mappings") =>
        /\ \A v \in VerifiesValues :
             \/ v \in DeclaredIds
             \/ DanglingLines(v) = Cardinality(CasesVerifying(v))
        /\ testMapErrors =
               Cardinality({ p \in CasePlaces : VerifiesAt(p) \notin DeclaredIds })

\* C3 amended: the same for the test cases whose verifies is non-empty; a
\* test case whose verifies is a registry key is never reported.
C3_TestMappingCheck ==
    HasRun("mappings") =>
        /\ \A v \in VerifiesValues \ {undefined, ""} :
             DanglingLines(v) =
                 IF v \in DeclaredIds THEN 0 ELSE Cardinality(CasesVerifying(v))
        /\ testMapErrors =
               Cardinality({ p \in CasePlaces :
                               /\ VerifiesAt(p) \notin {undefined, ""}
                               /\ VerifiesAt(p) \notin DeclaredIds })

\* The check has counted two test cases with the same dangling verifies
\* twice, beside a test case whose verifies is registered or absent.
C3_Witness ==
    /\ HasRun("mappings")
    /\ testMapErrors = 2
    /\ \E v \in VerifiesValues : Cardinality(CasesVerifying(v)) = 2

\* The mismatch lines VALIDATION 2 printed for `id` under component C.
MismatchLines(id, C) == Occurrences(log, <<"error", "prefix", id, C>>)

\* The id contains the segment ".C.".
NamesComponent(id, C) == includes(Chars[id], <<".">> \o Chars[C] \o <<".">>)

\* C4 as claimed: once the component-prefix check has run, for every
\* requirement R read from a file of component C, whatever C is, whose id
\* contains ".C.", either R's declared component is C or the check has
\* reported exactly one mismatch for R's id.
C4_Original ==
    HasRun("prefix") =>
        \A p \in IdentifiedPlaces :
            LET R == ElementAt(p)
                C == RequirementsComponentOf(PathAt(p))
            IN  NamesComponent(CarriedId(R), C) =>
                    \/ R.component = C
                    \/ MismatchLines(CarriedId(R), C) = 1

\* C4 amended: the same for every component C other than "System", with R
\* the last record read with its id from the files of C.
C4_PrefixCheck ==
    HasRun("prefix") =>
        \A id \in DeclaredIds : \A C \in ComponentsOf(id) \ {"System"} :
            NamesComponent(id, C) =>
                \/ ElementAt(LastDeclarationIn(C, id)).component = C
                \/ MismatchLines(id, C) = 1

\* The check has reported the one mismatch of an iOS file and passed over a
\* System file's requirement whose id contains ".System." and whose
\* declared component is not System.
C4_Witness ==
    /\ HasRun("prefix")
    /\ prefixErrors = 1
    /\ \E id \in DeclaredIds : MismatchLines(id, "iOS") = 1
    /\ \E p \in IdentifiedPlaces :
         /\ RequirementsComponentOf(PathAt(p)) = "System"
         /\ NamesComponent(CarriedId(ElementAt(p)), "System")
         /\ ElementAt(p).component # "System"

\* The dot-separated segments of a string.
RECURSIVE SplitDots(_)
SplitDots(cs) ==
    LET Dots == {i \in 1..Len(cs) : cs[i] = "."} IN
    IF Dots = {} THEN <<cs>>
    ELSE LET i == CHOOSE d \in Dots : \A e \in Dots : d <= e
         IN  <<SubSeq(cs, 1, i - 1)>> \o SplitDots(SubSeq(cs, i + 1, Len(cs)))

\* A non-empty run of characters of `class`.
AllOf(seg, class) == Len(seg) >= 1 /\ \A k \in 1..Len(seg) : seg[k] \in class

\* The shape of a requirement id: "System", one or more ".<digits>"
\* segments, then optionally one ".<letters>" tag followed by one or more
\* ".<digits>" segments.
WellFormedId(id) ==
    LET segs == SplitDots(Chars[id])
        n == Len(segs)
    IN  /\ segs[1] = Chars["System"]
        /\ \E k \in 2..n :
             /\ \A j \in 2..k : AllOf(segs[j], Digit)
             /\ \/ k = n
                \/ /\ k + 2 <= n
                   /\ AllOf(segs[k + 1], Letter)
                   /\ \A j \in (k + 2)..n : AllOf(segs[j], Digit)

\* The ids the specification lists as rejected.
RejectedExamples ==
    { "Req.1", "System", "System.1.iOS", "System.iOS.1", "System.1.iOS.1.Android.1" }

FormatLines(id) == Occurrences(log, <<"error", "format", id>>)

\* C5: once the ID-format check has run, every registry id of the shape
\* above has no format error and every other registry id has exactly one
\* (the listed examples among them); the format error count is the number
\* of registry ids not of that shape.
C5_FormatCheck ==
    HasRun("format") =>
        /\ \A id \in MapKeys(allRequirements) :
             FormatLines(id) = IF WellFormedId(id) THEN 0 ELSE 1
        /\ \A id \in RejectedExamples \cap MapKeys(allRequirements) :
             FormatLines(id) = 1
        /\ formatErrors =
               Cardinality({id \in MapKeys(allRequirements) : ~WellFormedId(id)})

\* The check has rejected a listed example and accepted an id with a
\* component tag.
C5_Witness ==
    /\ HasRun("format")
    /\ formatErrors = 1
    /\ RejectedExamples \cap MapKeys(allRequirements) # {}
    /\ \E id \in MapKeys(allRequirements) :
         WellFormedId(id) /\ NamesComponent(id, "iOS")

(***************************************************************************)
(* What each check owes, from the documents alone.                         *)
(***************************************************************************)
\* The component of the file that declared `id` last.
OwnerOf(id) == RequirementsComponentOf(PathAt(LastDeclaration(id)))

ExpectedHierarchyErrors ==
    Cardinality({ id \in DeclaredIds :
        LET P == ElementAt(LastDeclaration(id)).parent IN
        /\ P \notin {undefined, ""}
        /\ ScopedParent(P, OwnerOf(id))
        /\ P \notin DeclaredIds })

ExpectedPrefixErrors ==
    Cardinality({ pair \in DeclaredIds \X {OwnerOf(id) : id \in DeclaredIds} :
        LET id == pair[1]
            C  == pair[2]
        IN  /\ C \in ComponentsOf(id) \ {"System"}
            /\ NamesComponent(id, C)
            /\ ElementAt(LastDeclarationIn(C, id)).component # C })

ExpectedMappingErrors ==
    Cardinality({ p \in CasePlaces :
        /\ VerifiesAt(p) \notin {undefined, ""}
        /\ VerifiesAt(p) \notin DeclaredIds })

ExpectedFormatErrors ==
    Cardinality({ id \in DeclaredIds : ~WellFormedId(id) })

\* No element read so far made the loader throw.
NothingThrown ==
    /\ \A d \in 1..Len(reqDocs) : \A i \in 1..Len(reqDocs[d].graph) :
          reqDocs[d].graph[i] # NullItem
    /\ \A d \in 1..Len(mapDocs) : \A i \in 1..Len(mapDocs[d].graph) :
          ~MappingThrows(mapDocs[d].graph[i])

\* Every file of the command line has been opened and was a document, and
\* the loader read every element it came to.
AllLoaded ==
    /\ mode = "early"
    /\ Len(requirementsFiles) > 0
    /\ Len(reqDocs) = Len(requirementsFiles)
    /\ Len(mapDocs) = Len(testMappingFiles)
    /\ \A d \in 1..Len(reqDocs) : reqDocs[d].status = "ok"
    /\ \A d \in 1..Len(mapDocs) : mapDocs[d].status = "ok"
    /\ NothingThrown

IsBanner(line) == line[1] = "banner"

\* The validations that have started, in order.
Banners == SelectSeq(log, IsBanner)

AllBanners ==
    << <<"banner", "hierarchy">>, <<"banner", "prefix">>,
       <<"banner", "mappings">>, <<"banner", "format">> >>

\* C6: the checks start in the order hierarchy, component-prefix,
\* test-mapping, ID-format; a run that loaded all its documents has run all
\* four by the time it ends, and the count of each is what the documents
\* alone determine, whatever the other checks found.
C6_AllChecksRun ==
    /\ Banners = SubSeq(AllBanners, 1, Len(Banners))
    /\ (pc = "exit" /\ AllLoaded) =>
          /\ Banners = AllBanners
          /\ hierarchyErrors = ExpectedHierarchyErrors
          /\ prefixErrors = ExpectedPrefixErrors
          /\ testMapErrors = ExpectedMappingErrors
          /\ formatErrors = ExpectedFormatErrors

\* A run in which the first check found errors and the last check, run all
\* the same, found its own.
C6_Witness ==
    /\ pc = "exit" /\ AllLoaded
    /\ hierarchyErrors > 0 /\ prefixErrors = 0
    /\ testMapErrors = 0 /\ formatErrors > 0

\* The run has stopped at a file that could not be loaded.
StoppedAt(doc) ==
    /\ pc = "exit"
    /\ exitCode = 1
    /\ doc.graph = <<>>
    /\ Banners = <<>>
    /\ ~summary.printed
    /\ log[Len(log)][1] = "error" /\ log[Len(log)][3] = doc.path

\* C7: a requirements or test-mapping file that is missing, is not JSON or
\* has no @graph array is the last file the run opens: the run has stopped
\* there with exit code 1, no check has run and no summary is printed.
C7_FailFast ==
    /\ \A d \in 1..Len(reqDocs) :
         reqDocs[d].status # "ok" =>
             d = Len(reqDocs) /\ mapDocs = <<>> /\ StoppedAt(reqDocs[d])
    /\ \A d \in 1..Len(mapDocs) :
         mapDocs[d].status # "ok" =>
             d = Len(mapDocs) /\ StoppedAt(mapDocs[d])

\* A test-mapping file without @graph stopped a run whose registry was
\* already filled.
C7_Witness ==
    /\ Len(allRequirements) > 0
    /\ \E d \in 1..Len(mapDocs) : mapDocs[d].status = "nograph"
    /\ pc = "exit"

\* The registry record of an element read from `path`.
RecordOf(e, path) ==
    [type |-> e.type, atType |-> e.atType, id |-> e.id, atId |-> e.atId,
     parent |-> e.parent, source |-> path,
     component |-> RequirementsComponentOf(path)]

\* C8: at every moment of loading and after, the registry holds exactly the
\* ids declared so far, each once, mapped to the record, source file and
\* path-derived component of its last declaration; Total Requirements is
\* the number of distinct ids; a duplicate stops nothing and the error
\* counts are those of the last declarations.
C8_LastWriteWins ==
    /\ MapKeys(allRequirements) = DeclaredIds
    /\ Len(allRequirements) = Cardinality(DeclaredIds)
    /\ \A id \in DeclaredIds :
         MapGet(allRequirements, id) =
             RecordOf(ElementAt(LastDeclaration(id)), PathAt(LastDeclaration(id)))
    /\ summary.printed =>
          /\ summary.requirements = Cardinality(DeclaredIds)
          /\ hierarchyErrors = ExpectedHierarchyErrors
          /\ formatErrors = ExpectedFormatErrors
          /\ summary.errors = ExpectedHierarchyErrors + ExpectedPrefixErrors
                                + ExpectedMappingErrors + ExpectedFormatErrors

\* A finished run whose two files declared the same id with different
\* records: the registry holds one requirement, the second file's.
C8_Witness ==
    /\ summary.printed
    /\ summary.requirements = 1
    /\ Len(reqDocs) = 2
    /\ Len(reqDocs[1].graph) = 1 /\ Len(reqDocs[2].graph) = 1
    /\ reqDocs[1].graph[1] # reqDocs[2].graph[1]
    /\ allRequirements[1][2].source = reqDocs[2].path

\* The "Requirement missing ID" lines printed so far.
MissingIdLines ==
    Cardinality({ i \in 1..Len(log) : Len(log[i]) = 3 /\ log[i][2] = "missing-id" })

\* C9: a Requirement without id and @id is reported, one line each, and is
\* in neither the registry nor a component map; a finished run whose
\* identified requirements and test cases are without defect has four zero
\* counts and exit code 0, however many such records it read.
C9_MissingIdSkipped ==
    /\ MissingIdLines = Cardinality(UnidentifiedPlaces)
    /\ \A k \in MapKeys(allRequirements) : k \notin {undefined, ""}
    /\ \A c \in 1..Len(componentRequirements) :
         \A k \in MapKeys(componentRequirements[c][2]) : k \notin {undefined, ""}
    /\ (/\ summary.printed
        /\ ExpectedHierarchyErrors = 0 /\ ExpectedPrefixErrors = 0
        /\ ExpectedMappingErrors = 0 /\ ExpectedFormatErrors = 0) =>
          /\ hierarchyErrors = 0 /\ prefixErrors = 0
          /\ testMapErrors = 0 /\ formatErrors = 0
          /\ exitCode = 0

\* A run that read a Requirement without id beside a registered one and
\* ended with exit code 0.
C9_Witness ==
    /\ summary.printed
    /\ exitCode = 0
    /\ UnidentifiedPlaces # {}
    /\ Len(allRequirements) = 1

\* The "doesn't verify any requirement" warnings printed so far.
VerifiesNothingWarnings ==
    Cardinality({ i \in 1..Len(log) : log[i][1] = "warning" })

\* C10 as claimed: once the test-mapping check has run, it has printed its
\* warning for every test case whose verifies is empty or absent, and such
\* test cases add nothing to the error count.
C10_EmptyVerifiesWarned ==
    HasRun("mappings") =>
        /\ VerifiesNothingWarnings =
               Cardinality({ p \in CasePlaces : VerifiesAt(p) \in {undefined, ""} })
        /\ testMapErrors = ExpectedMappingErrors

(***************************************************************************)
(* Top-level test mappings and the meaning of exit code 0.                 *)
(***************************************************************************)
\* The places <<file, element>> of the test-mapping documents read so far
\* that hold a top-level element typed TestCase or TestMapping.
TopLevelMappingPlaces ==
    UNION { { <<d, i>> : i \in { j \in 1..Len(mapDocs[d].graph) :
                  {mapDocs[d].graph[j].type, mapDocs[d].graph[j].atType}
                      \cap {"TestCase", "TestMapping"} # {} } } :
            d \in 1..Len(mapDocs) }

\* The verifies of the top-level element at place p.
TopLevelVerifies(p) == mapDocs[p[1]].graph[p[2]].verifies

\* C11 as claimed: once the test-mapping check has run, every top-level
\* element of a test-mapping document typed TestCase or TestMapping has
\* been extracted as a test mapping, and one whose verifies names no
\* registered requirement has its dangling-reference line.
C11_TopLevelMappingsExtracted ==
    HasRun("mappings") =>
        \A p \in TopLevelMappingPlaces :
            /\ \E i \in 1..Len(testMappings) :
                   testMappings[i].verifies = TopLevelVerifies(p)
            /\ TopLevelVerifies(p) \notin DeclaredIds =>
                   DanglingLines(TopLevelVerifies(p)) >= 1

\* C12 as claimed: a run that exits with code 0 has registered the parent
\* of every registered requirement that names one.
C12_Original ==
    (pc = "exit" /\ mode = "early" /\ exitCode = 0) =>
        \A id \in MapKeys(allRequirements) :
            LET R == MapGet(allRequirements, id) IN
            Truthy(R.parent) => R.parent \in MapKeys(allRequirements)

\* C12 amended: a run that exits with code 0 has registered the parent of
\* every registered requirement whose parent is system- or
\* component-scoped.
C12_ExitZeroScopedParents ==
    (pc = "exit" /\ mode = "early" /\ exitCode = 0) =>
        \A id \in MapKeys(allRequirements) :
            LET R == MapGet(allRequirements, id) IN
            (Truthy(R.parent) /\ ScopedParent(R.parent, R.component)) =>
                R.parent \in MapKeys(allRequirements)

\* A run that exited with code 0 over a requirement whose scoped parent is
\* registered.
C12_Witness ==
    /\ pc = "exit" /\ exitCode = 0 /\ summary.printed
    /\ \E id \in MapKeys(allRequirements) :
         LET R == MapGet(allRequirements, id) IN
         /\ Truthy(R.parent)
         /\ ScopedParent(R.parent, R.component)
         /\ R.parent \in MapKeys(allRequirements)

(***************************************************************************)
(* Test-results mode.                                                      *)
(***************************************************************************)
\* Some directory of the tree cannot be read.
RECURSIVE HasUnreadableDirectory(_)
HasUnreadableDirectory(dir) ==
    \/ ~dir.readable
    \/ \E i \in 1..Len(dir.entries) :
         /\ dir.entries[i].isDirectory
         /\ HasUnreadableDirectory(dir.entries[i])

\* The test cases of the result documents read so far, as places
\* <<file, case>>.
ResultCasePlaces ==
    UNION { { <<d, c>> : c \in 1..Len(extractTestCases(resDocs[d].doc)) } :
            d \in 1..Len(resDocs) }

ResultVerifiesAt(p) == extractTestCases(resDocs[p[1]].doc)[p[2]].verifies

\* A validation or I/O failure of test-results mode: a test case refers to
\* an id that is no registered requirement, a result file cannot be read or
\* parsed, or a directory cannot be read.
ResultsFailure ==
    \/ \E p \in ResultCasePlaces :
         /\ ResultVerifiesAt(p) \notin {undefined, ""}
         /\ ResultVerifiesAt(p) \notin DeclaredIds
    \/ \E d \in 1..Len(resDocs) : resDocs[d].status # "ok"
    \/ HasUnreadableDirectory(resultsTree)

\* The run has gone through the results directory and ended.
ResultsRunEnded ==
    pc = "exit" /\ mode = "test-results" /\ resultsTree # NoTree

\* C13 as claimed: a test-results run that has gone through the results
\* directory exits with code 1 when a test case refers to an unregistered
\* id, a result file cannot be read or parsed, or a directory cannot be
\* read, and with code 0 only when none of these occurs.
C13_ResultsExitCode ==
    ResultsRunEnded => (exitCode = 1 <=> ResultsFailure)

(***************************************************************************)
(* Two runs on the same files.                                             *)
(***************************************************************************)
\* C14: when the script is run a second time with the same arguments on
\* the same unchanged files, the second run ends with the same four error
\* counts, the same total, the same errors of test-results mode and the
\* same exit code as the first, in whatever order glob.sync and
\* fs.readdirSync hand the files to either run.
C14_SameOutcomeOnRerun ==
    (runNo = 2 /\ pc = "exit") => Outcome = first.outcome

\* A second run has ended with errors after reading the two result files
\* in the other order: the first run met the file it could not use first,
\* the second run met it last.
C14_Witness ==
    /\ runNo = 2 /\ pc = "exit"
    /\ Len(resDocs) = 2 /\ Len(first.resDocs) = 2
    /\ resDocs[1].path = first.resDocs[2].path
    /\ resDocs[2].path = first.resDocs[1].path
    /\ resDocs[1].status = "ok" /\ resDocs[2].status # "ok"
    /\ errors > 1

(***************************************************************************)
(* Empty input.                                                            *)
(***************************************************************************)
\* The documents read hold no Requirement and no test mapping, and no file
\* failed to load.
ZeroInput ==
    /\ \A d \in 1..Len(reqDocs) : reqDocs[d].status = "ok"
    /\ \A d \in 1..Len(mapDocs) : mapDocs[d].status = "ok"
    /\ \A p \in ReqPlaces :
         "Requirement" \notin {ElementAt(p).type, ElementAt(p).atType}
    /\ CasePlaces = {}
    /\ TopLevelMappingPlaces = {}

\* The run reported no error in any check and exited with code 0.
VacuouslyValid ==
    /\ hierarchyErrors = 0 /\ prefixErrors = 0
    /\ testMapErrors = 0 /\ formatErrors = 0
    /\ summary.printed /\ summary.errors = 0
    /\ exitCode = 0

\* C15 as claimed: an early run that has ended over an input set holding
\* no requirement and no test mapping has reported 0 errors in every check
\* and exited with code 0.
C15_Original ==
    (pc = "exit" /\ ModeOf(args) = "early" /\ ZeroInput) => VacuouslyValid

\* C15 amended: the same for a run that is given at least one requirements
\* file and has loaded every file it is given.
C15_VacuouslyValid ==
    (pc = "exit" /\ AllLoaded /\ ZeroInput) => VacuouslyValid

\* A run over two requirements files and a test-mapping file, none of which
\* holds a requirement or a test mapping, has ended.
C15_Witness ==
    /\ pc = "exit" /\ AllLoaded /\ ZeroInput
    /\ Len(reqDocs) = 2 /\ Len(mapDocs) >= 1
    /\ \E p \in ReqPlaces : ElementAt(p).type = "Component"
    /\ exitCode = 0

(***************************************************************************)
(* The registry after loading.                                             *)
(***************************************************************************)
\* The places of the script after the loading phase: the four checks and
\* the summary of early mode, the validation of test results.
AfterLoading ==
    pc \in {"validation1", "validation2", "validation3", "validation4",
            "summary", "findTestResultFiles", "testResultFiles"}

\* C16: no step taken after the loading phase, by any of the four early
\* checks, the summary or the validation of test results, changes the
\* registry, the per-component requirement maps or the test-mapping list.
C16_ReadOnlyAfterLoad ==
    [][AfterLoading =>
           /\ allRequirements' = allRequirements
           /\ componentRequirements' = componentRequirements
           /\ testMappings' = testMappings]_vars

\* An early run has gone through its four checks, with errors, over a
\* registry and a test-mapping list that are not empty.
C16_Witness ==
    /\ pc = "exit" /\ summary.printed
    /\ Len(allRequirements) > 0
    /\ Len(componentRequirements) > 0
    /\ Len(testMappings) > 0
    /\ totalErrors > 0

(***************************************************************************)
(* C17: in every orchestrator run a component CI workflow is triggered     *)
(* only after the early validation script has exited 0, and the Compliance *)
(* Matrix Generation workflow is triggered only after the orchestrator has *)
(* seen each of the three component runs it monitors completed with        *)
(* conclusion success.                                                     *)
(***************************************************************************)
MonitoredSucceeded(w) ==
    /\ Listed(w)
    /\ RunStatus(w, runId[w]) = "completed"
    /\ RunConclusion(w, runId[w]) = "success"

C17_OrchestratorOrdering ==
    /\ triggered \cap RepoSet # {} => validatorExit = 0
    /\ ComplianceMatrix \in triggered =>
         \A w \in RepoSet : done[w] /\ MonitoredSucceeded(w)

C17_Witness ==
    /\ ComplianceMatrix \in triggered
    /\ validatorExit = 0
    /\ \A w \in RepoSet : HasRunOf(w, "orchestrator")

(***************************************************************************)
(* C18: for each component repository the run the orchestrator waits for   *)
(* is the run its own `gh workflow run` created: the id read after the     *)
(* sleep is the id of that run, whatever other run of the workflow is      *)
(* created meanwhile and however late the dispatched run is registered.    *)
(***************************************************************************)
C18_WaitsForTriggeredRun ==
    \A w \in RepoSet :
        Listed(w) =>
            /\ runId[w] \in 1..Len(github[w])
            /\ github[w][runId[w]].origin = "orchestrator"

(***************************************************************************)
(* C19: the orchestrator reports the completion of the pipeline only after *)
(* both system workflows have finished well: when the completion step has  *)
(* run, the Compliance Matrix Generation run it waited for has concluded   *)
(* success, and a Test Results Validation run that this run started has    *)
(* completed with conclusion success.                                      *)
(***************************************************************************)
ValidatedAfter(id) ==
    \E i \in 1..Len(github[TestResultsValidation]) :
        LET run == github[TestResultsValidation][i]
        IN /\ run.after = id
           /\ run.status = "completed"
           /\ run.conclusion = "success"

C19_CompletionAfterSystemWorkflows ==
    job["trigger-system-workflows"] = "success" =>
        /\ MonitoredSucceeded(ComplianceMatrix)
        /\ ValidatedAfter(runId[ComplianceMatrix])

(***************************************************************************)
(* C22: the step that waits for the component workflows succeeds exactly   *)
(* when all three runs were seen with conclusion success within            *)
(* MAX_ATTEMPTS attempts; it exits 1 at the first check that sees a run    *)
(* completed with another conclusion, without checking the others, and     *)
(* exits 1 after the last attempt when a run is still not done; a          *)
(* component that is done is not polled again.  What a check sees is what *)
(* its `gh run view` calls print: the status and conclusion GitHub holds,  *)
(* or nothing when a call fails, and a completed run whose conclusion      *)
(* could not be read is a run seen with a conclusion other than success.   *)
(***************************************************************************)
WaitJob == "trigger-component-workflows"

\* What a step of the orchestrator (GitHub's runs unchanged) does from the
\* poll loop.
C22_WaitStep ==
    (github' = github /\ job[WaitJob] = "running") =>
        /\ at = "check" =>
             LET w == Repos[repoIdx]
                 sawFailure == /\ ~done[w]
                               /\ STATUS' = "completed"
                               /\ CONCLUSION' # "success"
                 sawSuccess == /\ ~done[w]
                               /\ STATUS' = "completed"
                               /\ CONCLUSION' = "success"
             IN /\ (polled' = w) <=> ~done[w]
                /\ ~done[w] => STATUS' \in {"", RunStatus(w, runId[w])}
                /\ (~done[w] /\ STATUS' = "completed") =>
                       CONCLUSION' \in {"", RunConclusion(w, runId[w])}
                /\ (job'[WaitJob] = "failure") <=> sawFailure
                /\ sawFailure => at' = "end" /\ repoIdx' = repoIdx
                /\ job'[WaitJob] # "success"
                /\ done'[w] <=> (done[w] \/ sawSuccess)
        /\ at = "after-loop" =>
             /\ (job'[WaitJob] = "success") <=> AllDone(done)
             /\ (job'[WaitJob] = "failure") <=> ~AllDone(done)

C22_WaitState ==
    /\ attempt <= MAX_ATTEMPTS
    /\ \A w \in RepoSet : done[w] => MonitoredSucceeded(w)
    /\ (at = "after-loop" /\ ~AllDone(done)) => attempt = MAX_ATTEMPTS
    /\ job[WaitJob] = "success" => AllDone(done)

C22_ComponentWaitOutcome == [](C22_WaitState) /\ [][C22_WaitStep]_vars

\* The loop ran out of attempts with one component done and another not.
C22_Witness ==
    /\ job[WaitJob] = "failure"
    /\ attempt = MAX_ATTEMPTS
    /\ \E w \in RepoSet : done[w]
    /\ \E w \in RepoSet : ~done[w] /\ RunStatus(w, runId[w]) # "completed"

(***************************************************************************)
(* The orchestrator under fair scheduling: the runner always executes the  *)
(* next command of a job that can proceed.  Nothing obliges GitHub to      *)
(* register or to complete a run, and nothing obliges a `gh run view` of   *)
(* the Compliance Matrix run to fail: the poll that is sure to be run is   *)
(* the one whose views answer.                                             *)
(***************************************************************************)
OrchestratorStep ==
    \/ Fetch
    \/ ValidateFormat
    \/ ValidateRequirements
    \/ TriggerWorkflow
    \/ GetRunId
    \/ CheckWorkflow
    \/ AfterLoop
    \/ TriggerComplianceMatrix
    \/ GetComplianceMatrixRunId
    \/ ViewComplianceMatrix(TRUE, TRUE)
    \/ LogCompletion

PipelineFairSpec == PipelineSpec /\ WF_vars(OrchestratorStep)

(***************************************************************************)
(* C23: each polling loop of the orchestrator ends after a bounded number  *)
(* of polls whatever GitHub answers, a run that never completes included:  *)
(* the loop that waits for the component runs, and the loop that waits for *)
(* the Compliance Matrix Generation run.                                   *)
(***************************************************************************)
C23_PollLoopsTerminate ==
    /\ (at = "check") ~> (at # "check")
    /\ (at = "poll-compliance-matrix") ~> (at # "poll-compliance-matrix")

(***************************************************************************)
(* C24: in test-results mode every extracted test case is counted in       *)
(* exactly one of correct, warnings and errors, and every result file that *)
(* cannot be read or parsed adds one error without stopping the files      *)
(* after it: when the run ends, correct + warnings + errors is the number  *)
(* of extracted test cases plus the number of failed files.                *)
(***************************************************************************)
RECURSIVE FailedFiles(_)
FailedFiles(docs) ==
    IF docs = <<>> THEN 0
    ELSE (IF Head(docs).status # "ok" THEN 1 ELSE 0) + FailedFiles(Tail(docs))

C24_EveryCaseCountedOnce ==
    (pc = "exit" /\ mode = "test-results" /\ Len(resDocs) = Len(testFiles)
        /\ resultsTree # NoTree) =>
        correct + warnings + errors
            = UsedInResults(resDocs) + FailedFiles(resDocs)

(***************************************************************************)
(* C25: in the generated matrix a requirement has tested = true exactly    *)
(* when a test case of the matrix verifies its @id, and the statistics     *)
(* agree with the arrays: totalRequirements is the length of requirements, *)
(* testedRequirements + untestedRequirements = totalRequirements,          *)
(* totalTests is the length of testCases, and passingTests + failingTests  *)
(* <= totalTests.                                                          *)
(***************************************************************************)
VerifiedInMatrix(requirement) ==
    \E i \in 1..Len(testCases) : testCases[i].verifies = requirement.atId

C25_TestedAndStatisticsConsistent ==
    step = "done" =>
        /\ \A i \in 1..Len(matrix) :
             IsTested(matrix[i]) <=> VerifiedInMatrix(matrix[i])
        /\ statistics.totalRequirements = Len(matrix)
        /\ statistics.testedRequirements + statistics.untestedRequirements
             = statistics.totalRequirements
        /\ statistics.totalTests = Len(testCases)
        /\ statistics.passingTests + statistics.failingTests
             <= statistics.totalTests

(***************************************************************************)
(* C21: the dashboard shows a requirement as passing exactly when some     *)
(* test case verifies it and every such test case passed, as failing       *)
(* exactly when some test case verifies it and one of them did not pass,   *)
(* and as no-coverage exactly when no test case verifies it; a test case   *)
(* passed when the aggregator counts it in passingTests.                   *)
(***************************************************************************)
VerifyingTests(req) ==
    { i \in 1..Len(testCases) : testCases[i].verifies = req.id }

C21_DashboardClassification ==
    step = "done" =>
        \A k \in 1..Len(DashboardRequirements(systemFile.graph)) :
            LET req == DashboardRequirements(systemFile.graph)[k]
                class == RowClass(req, testCases)
                tests == VerifyingTests(req)
            IN /\ class = "passing" <=>
                    /\ tests # {}
                    /\ \A i \in tests : IsPassed(testCases[i])
               /\ class = "failing" <=>
                    /\ tests # {}
                    /\ \E i \in tests : ~IsPassed(testCases[i])
               /\ class = "no-coverage" <=> tests = {}

(***************************************************************************)
(* C29: every (id, record) pair the component-prefix check examines is the *)
(* record the registry holds for that id at that time, so a record         *)
(* overwritten in the registry by a later duplicate id of another          *)
(* component's file is not examined, and the number of ids the check       *)
(* iterates over is the reported Total Requirements.                       *)
(***************************************************************************)
\* The places of componentRequirements VALIDATION 2 iterates over.
ExaminedPairs ==
    { <<c, i>> \in (1..Len(componentRequirements)) \X (1..MaxRecords + 1) :
        /\ ~SkipComponent(componentRequirements[c][1])
        /\ i <= Len(componentRequirements[c][2]) }

HoldsRecordOf(c, i) ==
    LET component == componentRequirements[c][1]
        id == componentRequirements[c][2][i][1]
        req == componentRequirements[c][2][i][2]
    IN /\ MapHas(allRequirements, id)
       /\ \E filePath \in {MapGet(allRequirements, id).source} :
            MapGet(allRequirements, id) = RegistryRecord(req, filePath, component)

C29_PrefixCheckExaminesRegistry ==
    pc = "validation3" =>
        /\ \A p \in ExaminedPairs : HoldsRecordOf(p[1], p[2])
        /\ Cardinality(ExaminedPairs) = Len(allRequirements)

(***************************************************************************)
(* C26: download_compliance_matrix tries its sources in one order, the     *)
(* fresh aggregation, the latest matrix artifact, the matrix of            *)
(* compliance/reports, the requirements file; it stops at the first that   *)
(* succeeds and returns 0; it returns 1 only when all four failed or the   *)
(* GitHub CLI is not installed; a failed source never keeps a later one    *)
(* from being tried.                                                       *)
(***************************************************************************)
C26_SourcesTriedInOrder ==
    /\ Len(tried) <= Len(Sources)
    /\ \A i \in 1..Len(tried) : tried[i].source = Sources[i]
    /\ \A i \in 1..Len(tried) : i < Len(tried) => ~tried[i].ok
    /\ (tried # <<>> /\ tried[Len(tried)].ok) => ret = 0
    /\ ret = 0 => tried # <<>> /\ tried[Len(tried)].ok
    /\ ret = 1 =>
         \/ cli = "missing" /\ tried = <<>>
         \/ /\ cli = "found"
            /\ Len(tried) = Len(Sources)
            /\ \A i \in 1..Len(tried) : ~tried[i].ok
    /\ (cli = "missing" /\ serve # "check-gh") => ret = 1

\* The matrix of compliance/reports is used after the aggregation and the
\* artifact download have failed.
C26_Witness ==
    /\ ret = 0
    /\ Len(tried) = 3
    /\ ~tried[1].ok /\ ~tried[2].ok /\ tried[3].ok

(***************************************************************************)
(* C27: without a Python interpreter serve-dashboard.sh ends with exit     *)
(* status 1, after the cleanup handler has stopped the auto-refresh        *)
(* process and removed the PID file.                                       *)
(***************************************************************************)
C27_NoPythonExitsOne ==
    (serve = "exited" /\ python = "none") =>
        /\ exitStatus = 1
        /\ refresh = "killed"
        /\ ~pidFile

(***************************************************************************)
(* C28: the fetch scripts detect a failed fetch.  When the file of a       *)
(* component could not be retrieved through the GitHub API the script      *)
(* reports the failure for that component, fetch-component-requirements.sh *)
(* exits non-zero, and the closing "fetched successfully" line is printed  *)
(* only when the file of every component was retrieved.                    *)
(***************************************************************************)
\* The components whose fetch was attempted and did not retrieve the file.
FailedFetches ==
    { c \in FetchComponents : fetchFiles[c] \in {"empty", "junk"} }

Printed(line) == \E i \in 1..Len(fetchLog) : fetchLog[i] = line

C28_FailedFetchDetected ==
    fetchAt = "exited" =>
        /\ \A c \in FailedFetches : Printed(<<"failed", c>>)
        /\ (FailedFetches # {} /\ fetchRun.script = FetchRequirements)
              => fetchExit # 0
        /\ Printed(<<"all-fetched">>) =>
              \A c \in FetchComponents : fetchFiles[c] = "fetched"

====
